---- MODULE Spec2Model ----
(***************************************************************************)
(* The PlayStation 2 sub-system interface (SIF): the command transport and *)
(* the RPC layer of drivers/ps2/sif.c, with the DMA channels SIF0          *)
(* (sub-to-main) and SIF1 (main-to-sub), the satellite (IOP) and the       *)
(* inbound interrupt as the environment.                                   *)
(*                                                                         *)
(* A 32-bit word is a sequence of four bytes, least significant first (the *)
(* R5900 and the IOP are little-endian), so that values with bit 31 set    *)
(* (the system command ids) are exact.                                     *)
(***************************************************************************)
EXTENDS Integers, Sequences, FiniteSets, TLC

\* The poll budget of sif1_ready (countout, 50000 in the code), scaled down.
PollBudget == 2

\* ---------------------------------------------------------------- constants

PAGE_SIZE == 4096
SIF0_BUFFER_SIZE == PAGE_SIZE
SIF1_BUFFER_SIZE == PAGE_SIZE
SIF_CMD_PACKET_MAX == 112
SIF_CMD_PACKET_DATA_MAX == 96
CMD_HANDLER_MAX == 64
SREGS_MAX == 32
\* sizeof(struct sif_cmd_header) and sizeof(struct iop_dma_tag)
HEADER_SIZE == 16
TAG_SIZE == 16

ENXIO == 6
ENOMEM == 12
EBUSY == 16
EIO == 5
EINVAL == 22

\* ------------------------------------------------------------------- words

\* The word with high half hi and low half lo (each 0..65535).
W(hi, lo) == <<lo % 256, lo \div 256, hi % 256, hi \div 256>>

NULL == W(0, 0)

\* The 24-bit little-endian encoding of n.
LE24(n) == <<n % 256, (n \div 256) % 256, (n \div 65536) % 256>>

\* w < n for a word w and a number n of at most 256.
WordBelow(w, n) == w[2] = 0 /\ w[3] = 0 /\ w[4] = 0 /\ w[1] < n

\* The k-th 32-bit field (from 0) of a byte buffer.
Field(buf, k) == SubSeq(buf, 4 * k + 1, 4 * k + 4)

Zeros(n) == [i \in 1..n |-> 0]

\* n bytes of a caller's buffer: a pattern that depends on the buffer (seed).
Bytes(seed, n) == [i \in 1..n |-> (seed + 7 * i) % 256]

\* buf with its first Len(new) bytes replaced by new.
Overwrite(buf, new) ==
  [i \in 1..(IF Len(new) > Len(buf) THEN Len(new) ELSE Len(buf)) |->
     IF i <= Len(new) THEN new[i] ELSE buf[i]]

ALIGN(x, a) == ((x + a - 1) \div a) * a

\* ------------------------------------------------------------- command ids

SIF_CMD_WRITE_SREG == W(32768, 1)
SIF_CMD_INIT_CMD == W(32768, 2)
SIF_CMD_RESET_CMD == W(32768, 3)
SIF_CMD_RPC_END == W(32768, 8)
SIF_CMD_RPC_BIND == W(32768, 9)
SIF_CMD_RPC_CALL == W(32768, 10)
SIF_CMD_RPC_RDATA == W(32768, 12)
SIF_CMD_IRQ_RELAY == W(32768, 32)
SIF_CMD_GAMEPAD == W(32768, 34)

\* cmd_id & SIF_CMD_ID_SYS, and cmd_id & ~SIF_CMD_ID_SYS
IsSys(cmd_id) == cmd_id[4] >= 128
ClearSys(cmd_id) == [cmd_id EXCEPT ![4] = cmd_id[4] % 128]

\* ---------------------------------------------------------- handler tables

NoHandler == [cb |-> "NULL", arg |-> 0]

\* A handler reference: the table (system or user) and the index, or NullRef.
NullRef == [sys |-> FALSE, id |-> CMD_HANDLER_MAX]

handler_from_cid_nonamespace(cmd_id) ==
  LET id == ClearSys(cmd_id) IN
  IF WordBelow(id, CMD_HANDLER_MAX) THEN [sys |-> FALSE, id |-> id[1]] ELSE NullRef

handler_from_cid_norange(cmd_id) ==
  [sys |-> IsSys(cmd_id), id |-> ClearSys(cmd_id)[1] % CMD_HANDLER_MAX]

handler_from_cid(cmd_id) ==
  LET id == ClearSys(cmd_id) IN
  IF WordBelow(id, CMD_HANDLER_MAX) THEN [sys |-> IsSys(cmd_id), id |-> id[1]] ELSE NullRef

\* ------------------------------------------------------------ packet header

sif_cmd_header_noopt(cmd_id, opt, pktsize, dst, nbytes) ==
  [packet_size |-> (HEADER_SIZE + pktsize) % 256,
   data_size   |-> nbytes % 16777216,
   data_addr   |-> dst,
   cmd         |-> cmd_id,
   opt         |-> NULL]

sif_cmd_header_aligned(cmd_id, opt, pktsize, dst, nbytes) ==
  [packet_size |-> (((HEADER_SIZE + pktsize + 15) \div 16) * 16) % 256,
   data_size   |-> nbytes % 16777216,
   data_addr   |-> dst,
   cmd         |-> cmd_id,
   opt         |-> opt]

\* The header sif_cmd_opt_copy builds: packet_size is an 8-bit and data_size a
\* 24-bit field.
sif_cmd_header(cmd_id, opt, pktsize, dst, nbytes) ==
  [packet_size |-> (HEADER_SIZE + pktsize) % 256,
   data_size   |-> nbytes % 16777216,
   data_addr   |-> dst,
   cmd         |-> cmd_id,
   opt         |-> opt]

\* The 16 bytes of a header in memory, and the header read from a buffer.
EncodeHeader(h) ==
  <<h.packet_size>> \o LE24(h.data_size) \o h.data_addr \o h.cmd \o h.opt

DecodeHeader(buf) ==
  [packet_size |-> buf[1],
   data_size   |-> buf[2] + 256 * buf[3] + 65536 * buf[4],
   data_addr   |-> Field(buf, 1),
   cmd         |-> Field(buf, 2),
   opt         |-> Field(buf, 3)]

packet_size_valid_nomax(packet_size) == packet_size >= HEADER_SIZE

\* The size check of sif0_dma_handler.
packet_size_valid(packet_size) ==
  ~(packet_size < HEADER_SIZE \/ packet_size > SIF_CMD_PACKET_MAX)

\* ------------------------------------------------------------------ state

Threads == {"t1", "t2"}
Ctx == Threads \cup {"irq"}
Clients == {"c1", "c2"}

VARIABLES
  sys_cmds,     \* handler_from_cid: the system handler table
  usr_cmds,     \* handler_from_cid: the user handler table
  sregs,        \* the 32 status registers written by cmd_write_sreg
  sif1_buffer,  \* the outbound staging buffer: the tag and the bytes after it
  sif1,         \* the SIF1 channel: its busy bit and the transfer under way
  sif0_buffer,  \* the inbound buffer: SIF_CMD_PACKET_MAX bytes
  sif0_chcr,    \* the SIF0 channel: TRUE while armed (busy), FALSE once a packet arrived
  irqPending,   \* IRQ_DMAC_SIF0 raised and not yet served
  iop,          \* the satellite: the command and the bulk data it received last
  clients,      \* the RPC clients (struct sif_rpc_client)
  snd,          \* per context: the position inside sif_cmd_opt_copy
  th,           \* per thread: the operation under way and its position
  irq,          \* the position inside sif0_dma_handler
  calls,        \* the handlers invoked by the current run of sif0_dma_handler
  run,          \* what the current (or last) run of sif0_dma_handler did
  pages,        \* the pages allocated (__get_free_page) and not freed
  lastReg,      \* per command id: the last successful sif_request_cmd
  ends,         \* per client: the RPC-end packets dispatched since its operation began
  rpc,          \* per thread: what its bind or call has done so far, and the caller's recv
  life,         \* per client: where it is in Unbound, Binding, Bound (a history)
  mem,          \* the first bytes of each page a client can get for its receive buffer
  boot,         \* sif_init: its position, its result, and the mailbox flags
  mod           \* the IOP module linker: its mutex, its list of libraries, its callers

vars == <<sys_cmds, usr_cmds, sregs, sif1_buffer, sif1, sif0_buffer, sif0_chcr,
          irqPending, iop, clients, snd, th, irq, calls, run, pages, lastReg, ends,
          rpc, life, mem, boot, mod>>

tableVars == <<sys_cmds, usr_cmds, lastReg>>
sif1Vars == <<sif1_buffer, sif1>>
sif0Vars == <<sif0_buffer, sif0_chcr, irqPending>>
irqVars == <<irq, calls, run>>
rpcVars == <<clients, pages, ends>>
extVars == <<rpc, life, mem, boot, mod>>

\* The arguments of sif_cmd_opt_copy: pkt is the inline packet (pktsize is its
\* length), src names the bulk buffer and nbytes is its size.
NoArgs == [cmd_id |-> NULL, opt |-> NULL, pkt |-> <<>>, dst |-> NULL, src |-> 0, nbytes |-> 0]

NoTag == [ert |-> FALSE, int_0 |-> FALSE, addr |-> NULL, wc |-> 0]
NoXfer == [ctx |-> "none", kind |-> "none", tag |-> NoTag, bytes |-> <<>>, a |-> NoArgs]

IdleSend == [pc |-> "idle", phase |-> "none", a |-> NoArgs, countout |-> 0,
             err |-> 0, bulkStarted |-> FALSE]
IdleThread == [op |-> "idle", pc |-> "idle", c |-> "none", val |-> 0, cmd |-> NULL,
               sent |-> FALSE]
NoRun == [found_idle |-> FALSE, inv_data |-> FALSE, size_ok |-> FALSE, rearms |-> 0,
          echo |-> NoArgs, outcome |-> "none"]
NoClient == [server |-> NULL, server_buffer |-> NULL, client_size_max |-> 0,
             client_buffer |-> 0, done |-> FALSE]
NoEnds == [n |-> 0, kind |-> NULL, server |-> NULL, server_buffer |-> NULL]

\* A bind or call under way: recv_size and the caller's recv buffer, whether
\* wait_for_completion was entered, how often sif_cmd was called, whether the
\* satellite has sent its answer, and the bytes it wrote for it.
NoRpc == [recv_size |-> 0, recv |-> <<>>, waited |-> FALSE, sends |-> 0,
          answered |-> FALSE, answer |-> <<>>]

\* A client nobody has bound yet; rebind marks a bind that follows the unbind
\* of a successful bind.
NoLife == [state |-> "never", rebind |-> FALSE]

\* sif_request_cmds: the four system handlers sif_init registers.
SystemHandlers ==
  [i \in 0..(CMD_HANDLER_MAX - 1) |->
     IF i = 1 THEN [cb |-> "cmd_write_sreg", arg |-> 0]
     ELSE IF i = 32 THEN [cb |-> "cmd_irq_relay", arg |-> 0]
     ELSE IF i = 8 THEN [cb |-> "cmd_rpc_end", arg |-> 0]
     ELSE IF i = 9 THEN [cb |-> "cmd_rpc_bind", arg |-> 0]
     ELSE NoHandler]

UserHandlersInit == [i \in 0..(CMD_HANDLER_MAX - 1) |-> NoHandler]

\* The entry a handler reference names in the tables (sys, usr).
HandlerAt(sys, usr, ref) ==
  IF ref = NullRef THEN NoHandler
  ELSE IF ref.sys THEN sys[ref.id] ELSE usr[ref.id]

\* The command ids sif_request_cmd is called with.
\* The command ids of the model: those sif_request_cmd is called with and
\* those of the packets.
CmdIds == {W(0, 34), SIF_CMD_GAMEPAD, W(0, 63), W(0, 64), W(32768, 64), W(1, 0),
           W(32767, 65535), SIF_CMD_WRITE_SREG, SIF_CMD_IRQ_RELAY, SIF_CMD_RPC_END,
           SIF_CMD_RPC_BIND, SIF_CMD_RPC_RDATA}

\* The pages of sif0_buffer and sif1_buffer (get_dma_buffers), and the number
\* of further pages the allocator has.
SIF0_PAGE == 1
SIF1_PAGE == 2
MaxPages == 2

\* The pages left for the receive buffers of the clients, and how many of
\* their first bytes the model keeps.
ClientPages == (SIF1_PAGE + 1)..(SIF1_PAGE + MaxPages)
RecvMax == 3

\* __get_free_page does not clear a page: until somebody writes it, it holds
\* bytes nobody chose.
Garbage == [i \in 1..RecvMax |-> 238]

\* The bits of the SMFLAG and MSFLAG registers.
SIF_STATUS_SIFINIT == "SIFINIT"
SIF_STATUS_CMDINIT == "CMDINIT"
SIF_STATUS_BOOTEND == "BOOTEND"

\* The calls of sif_init that have to succeed, in the order of its body.
BootOrder ==
  <<"sif_disable_dma", "get_dma_buffers", "sif_read_subaddr",
    "sif_write_mainaddr_bootend", "iop_reset", "sif_write_mainaddr_bootend",
    "sif_read_subaddr", "sif_request_cmds", "sif0_reset_dma", "request_irq",
    "sif_cmd_init", "sif_rpc_init">>

\* sif_init: where it is (pc), what it returned (err), whether the interrupt
\* handler is installed (irq), the polls left to the wait under way, the bits
\* set in SMFLAG and MSFLAG, whether a wait expired, the label of the
\* unwinding it took, the calls that have returned success so far (trace),
\* the bits of SMFLAG that were set when sif_init was entered (entry), those
\* of them not cleared since (stale), and what the satellite has taken on
\* and not yet done (owes).
BootDone == [pc |-> "done", err |-> 0, irq |-> TRUE, polls |-> 0,
             smflag |-> {SIF_STATUS_CMDINIT, SIF_STATUS_BOOTEND},
             msflag |-> {SIF_STATUS_CMDINIT, SIF_STATUS_BOOTEND},
             expired |-> FALSE, label |-> "none", trace |-> BootOrder,
             entry |-> {SIF_STATUS_CMDINIT}, stale |-> {}, owes |-> {}]

\* sif_init is entered.
BootStart(smflag) ==
  [pc |-> "start", err |-> 0, irq |-> FALSE, polls |-> 0, smflag |-> smflag,
   msflag |-> {}, expired |-> FALSE, label |-> "none", trace |-> <<>>,
   entry |-> smflag, stale |-> smflag, owes |-> {}]

\* -------------------------------------------------------- IOP module linker

ENOENT == 2
ENOEXEC == 8
ENAMETOOLONG == 78
EOVERFLOW == 75

\* char name[IOPMOD_MAX_LIBRARY_NAME]; char filepath[32]; "ps2/" and ".irx".
IOPMOD_MAX_LIBRARY_NAME == 8
FILEPATH_SIZE == 32
FILEPATH_AFFIXES == 8

bcd2bin(x) == (x % 16) + (x \div 16) * 10
bin2bcd(n) == (n \div 10) * 16 + (n % 10)

\* A 16-bit version in BCD, with 8-bit minor and 8-bit major.
BcdVersion(major, minor) == bin2bcd(major) * 256 + bin2bcd(minor)
major_version(version) == bcd2bin((version \div 256) % 256)
minor_version(version) == bcd2bin(version % 256)

version_compatible(version, requested_version) ==
  /\ major_version(version) = major_version(requested_version)
  /\ minor_version(version) >= minor_version(requested_version)

\* The versions requested and found in module files: 1.0, 1.1 and 2.0.
Versions == {BcdVersion(1, 0), BcdVersion(1, 1), BcdVersion(2, 0)}

\* Module names, as the characters of a NUL-terminated string: "gamepad",
\* two names of nine characters that agree in their first eight ("irqrelay1"
\* and "irqrelay2"), and a name of 23 characters.
NameGamepad == <<103, 97, 109, 101, 112, 97, 100>>
NameRelay1 == <<105, 114, 113, 114, 101, 108, 97, 121, 49>>
NameRelay2 == <<105, 114, 113, 114, 101, 108, 97, 121, 50>>
NameLong == [i \in 1..(FILEPATH_SIZE - 1 - FILEPATH_AFFIXES) |-> 120]
ModNames == {NameGamepad, NameRelay1, NameRelay2, NameLong}

\* The name field of a library entry: IOPMOD_MAX_LIBRARY_NAME characters, not
\* NUL terminated unless the name is shorter.
LibraryName(name) ==
  [i \in 1..IOPMOD_MAX_LIBRARY_NAME |-> IF i <= Len(name) THEN name[i] ELSE 0]

\* strncmp(name, library->name, sizeof(library->name)) == 0
strncmp_equal(name, library_name) == LibraryName(name) = library_name

library_provided_by_firmware_never(libs, name) == FALSE

\* library_provided_by_firmware over the list linked_libraries.
library_provided_by_firmware(libs, name) ==
  \E i \in 1..Len(libs) : strncmp_equal(name, libs[i].name)

\* What snprintf(filepath, sizeof(filepath), "ps2/%s.irx", name) returns.
snprintf_filepath(name) == FILEPATH_AFFIXES + Len(name)

\* The module file ps2/<name>.irx on this system: the version in its .iopmod
\* section.  The file exports one library, named as the module, of the same
\* version.
FirmwareVersion(name) ==
  IF name = NameGamepad THEN BcdVersion(1, 1)
  ELSE IF name = NameRelay1 THEN BcdVersion(1, 0)
  ELSE BcdVersion(2, 0)

\* sizeof(link.arg) in iop_module_link_buffer.
IOPMOD_MAX_ARG == 252

\* The table IOP_ERRORS of asm/mach-ps2/iop-error.h: the IOP error numbers
\* with their kernel error numbers (link error, no such file, no memory).
IOP_ERRORS == (200 :> ENOEXEC) @@ (203 :> ENOENT) @@ (400 :> ENOMEM)

\* A mapping without the lower end of the range check.
errno_for_iop_error_abs(ioperr) ==
  IF -ioperr \in DOMAIN IOP_ERRORS THEN -IOP_ERRORS[-ioperr]
  ELSE IF ioperr < 0 THEN -EINVAL ELSE ioperr

\* errno_for_iop_error: the cases of the switch, then the range check.
errno_for_iop_error(ioperr) ==
  IF -ioperr \in DOMAIN IOP_ERRORS THEN -IOP_ERRORS[-ioperr]
  ELSE IF -1000 < ioperr /\ ioperr < 0 THEN -EINVAL ELSE ioperr

\* What iop_alloc returns: 0, or the address of a block of the IOP heap.
IopBlocks == {W(0, 4096), W(0, 8192)}

\* The status the IOP returns for rpo_mod_buf_load, and for rpo_free.
LinkStatuses == {0, 1, -200, -7}
FreeStatuses == {0, 1, -1, -200, -203, -400, -999, -1000, -1001}

\* What is known of the last iop_free: the error of its sif_rpc, the status
\* the IOP returned, and what iop_free returned.
NoFree == [err |-> 0, status |-> 0, ret |-> 0]

\* A caller of iop_module_request: where it is, what it asked for, and err;
\* and of its iop_module_link_buffer: link.addr, the calls of iop_alloc, the
\* addresses given to iop_free, the calls of sif_rpc for rpo_mod_buf_load,
\* and its last iop_free.
IdleRequest == [pc |-> "idle", name |-> <<>>, version |-> 0, arg_size |-> 1, err |-> 0,
                addr |-> NULL, allocs |-> 0, freed |-> <<>>, rpcs |-> 0,
                free |-> NoFree]

\* No module linked by the linker: the mutex free, linked_libraries empty,
\* no module of the linker in the IOP.
ModInit == [lock |-> "none", libs |-> <<>>, iop |-> {},
            th |-> [t \in Threads |-> IdleRequest]]

sifVars == <<sys_cmds, usr_cmds, sregs, sif1_buffer, sif1, sif0_buffer, sif0_chcr,
             irqPending, iop, clients, snd, th, irq, calls, run, pages, lastReg,
             ends, rpc, life, mem, boot>>

mutex_can_lock_always(lock) == TRUE

\* mutex_lock goes on only when the mutex is free.
mutex_can_lock(lock) == lock = "none"

\* The caller t with err, on its way to mutex_unlock.
RequestEnds(t, err) == [mod.th[t] EXCEPT !.pc = "unlock", !.err = err]

\* iop_module_request is called; arg_size is strlen(arg) + 1, 1 with no arg.
iop_module_request(t, name, version, arg_size) ==
  /\ mod.th[t].pc = "idle"
  /\ mod' = [mod EXCEPT !.th[t] = [IdleRequest EXCEPT !.pc = "lock", !.name = name,
                                     !.version = version, !.arg_size = arg_size]]
  /\ UNCHANGED sifVars

\* mutex_lock(&iop_module_lock).
mutex_lock(t) ==
  /\ mod.th[t].pc = "lock"
  /\ mutex_can_lock(mod.lock)
  /\ mod' = [mod EXCEPT !.lock = t, !.th[t].pc = "lookup"]
  /\ UNCHANGED sifVars

\* iop_module_request_firmware up to request_firmware: the lookup in
\* linked_libraries, which ends the request with 0, and the file path.
iop_module_request_firmware(t) ==
  /\ mod.th[t].pc = "lookup"
  /\ mod' = [mod EXCEPT !.th[t] =
       IF library_provided_by_firmware(mod.libs, @.name)
       THEN RequestEnds(t, 0)
       ELSE IF snprintf_filepath(@.name) = FILEPATH_SIZE - 1
       THEN RequestEnds(t, -ENAMETOOLONG)
       ELSE [@ EXCEPT !.pc = "firmware"]]
  /\ UNCHANGED sifVars

\* request_firmware, irx_identify and irx_version_compatible: the file is not
\* to be had, is no IRX object, or is the module file with its version.
request_firmware(t) ==
  /\ mod.th[t].pc = "firmware"
  /\ \E r \in {"missing", "not_irx", "irx"} :
       mod' = [mod EXCEPT !.th[t] =
         IF r = "missing" THEN RequestEnds(t, -ENOENT)
         ELSE IF r = "not_irx" THEN RequestEnds(t, -ENOEXEC)
         ELSE IF ~version_compatible(FirmwareVersion(@.name), @.version)
         THEN RequestEnds(t, -ENOEXEC)
         ELSE [@ EXCEPT !.pc = "link"]]
  /\ UNCHANGED sifVars

\* iop_module_link_buffer up to its sif_rpc: iop_alloc, which returns 0 when
\* it fails, and the check of the size of arg.
iop_module_link_buffer(t) ==
  /\ mod.th[t].pc = "link"
  /\ \E addr \in {NULL} \cup IopBlocks :
       mod' = [mod EXCEPT !.th[t] =
         IF addr = NULL
         THEN [RequestEnds(t, -ENOMEM) EXCEPT !.allocs = @ + 1]
         ELSE IF @.arg_size >= IOPMOD_MAX_ARG
         THEN [@ EXCEPT !.pc = "free", !.err = -EOVERFLOW, !.addr = addr,
                        !.allocs = @ + 1]
         ELSE [@ EXCEPT !.pc = "rpc", !.addr = addr, !.allocs = @ + 1]]
  /\ UNCHANGED sifVars

\* sif_rpc(&load_file_rpc_client, rpo_mod_buf_load, ...) in
\* iop_module_link_buffer: the call fails, the IOP reports an error, or the
\* IOP has linked the module.
rpo_mod_buf_load(t) ==
  /\ mod.th[t].pc = "rpc"
  /\ \E err \in {0, -EBUSY} : \E status \in LinkStatuses :
       mod' = IF err < 0
              THEN [mod EXCEPT !.th[t] = [@ EXCEPT !.pc = "free", !.err = err,
                                                   !.rpcs = @ + 1]]
              ELSE IF status < 0
              THEN [mod EXCEPT !.th[t] =
                      [@ EXCEPT !.pc = "free", !.err = errno_for_iop_error(status),
                                !.rpcs = @ + 1]]
              ELSE [mod EXCEPT
                      !.iop = @ \cup {[name |-> mod.th[t].name,
                                       version |-> FirmwareVersion(mod.th[t].name)]},
                      !.th[t] = [@ EXCEPT !.pc = "register", !.rpcs = @ + 1]]
  /\ UNCHANGED sifVars

\* A register_libraries whose failure is returned at once, without the
\* iop_free of err_libraries.
register_libraries_returns(t) ==
  /\ mod.th[t].pc = "register"
  /\ \E got \in BOOLEAN :
       mod' = IF got
              THEN [mod EXCEPT
                      !.libs = <<[name |-> LibraryName(mod.th[t].name),
                                  version |-> FirmwareVersion(mod.th[t].name)]>>
                               \o @,
                      !.th[t] = [@ EXCEPT !.pc = "free", !.err = 0]]
              ELSE [mod EXCEPT !.th[t] = RequestEnds(t, -ENOMEM)]
  /\ UNCHANGED sifVars

\* register_libraries: the entry of the exported library is put at the head
\* of linked_libraries, or kmalloc fails.
register_libraries(t) ==
  /\ mod.th[t].pc = "register"
  /\ \E got \in BOOLEAN :
       mod' = IF got
              THEN [mod EXCEPT
                      !.libs = <<[name |-> LibraryName(mod.th[t].name),
                                  version |-> FirmwareVersion(mod.th[t].name)]>>
                               \o @,
                      !.th[t] = [@ EXCEPT !.pc = "free", !.err = 0]]
              ELSE [mod EXCEPT !.th[t] = [@ EXCEPT !.pc = "free", !.err = -ENOMEM]]
  /\ UNCHANGED sifVars

\* iop_free(link.addr) at the end of iop_module_link_buffer, which returns
\* err: the sif_rpc of iop_free fails, or the IOP returns a status, and what
\* iop_free returns is not looked at.
iop_free(t) ==
  /\ mod.th[t].pc = "free"
  /\ \E err \in {0, -EBUSY} : \E status \in FreeStatuses :
       mod' = [mod EXCEPT !.th[t] =
         [@ EXCEPT !.pc = "unlock", !.freed = Append(@, mod.th[t].addr),
                   !.free = IF err < 0
                            THEN [err |-> err, status |-> 0, ret |-> err]
                            ELSE [err |-> 0, status |-> status,
                                  ret |-> errno_for_iop_error(status)]]]
  /\ UNCHANGED sifVars

\* mutex_unlock(&iop_module_lock) and return err; what was noted of
\* iop_module_link_buffer is dropped.
mutex_unlock(t) ==
  /\ mod.th[t].pc = "unlock"
  /\ mod' = [mod EXCEPT !.lock = "none",
                        !.th[t] = [IdleRequest EXCEPT
                                     !.pc = "returned", !.name = mod.th[t].name,
                                     !.version = mod.th[t].version,
                                     !.arg_size = mod.th[t].arg_size,
                                     !.err = mod.th[t].err]]
  /\ UNCHANGED sifVars

\* The caller has taken the result.
iop_module_returned(t) ==
  /\ mod.th[t].pc = "returned"
  /\ mod' = [mod EXCEPT !.th[t] = IdleRequest]
  /\ UNCHANGED sifVars

\* The state sif_init leaves: the system handlers registered, SIF0 armed, the
\* interrupt handler installed, SIF1 idle.
Init ==
  /\ sys_cmds = SystemHandlers
  /\ usr_cmds = UserHandlersInit
  /\ sregs = [i \in 0..(SREGS_MAX - 1) |-> (IF i = 0 THEN W(0, 1) ELSE NULL)]
  /\ sif1_buffer = [tag |-> NoTag, bytes |-> <<>>]
  /\ sif1 = [busy |-> FALSE, xfer |-> NoXfer]
  /\ sif0_buffer = Zeros(SIF_CMD_PACKET_MAX)
  /\ sif0_chcr = TRUE
  /\ irqPending = FALSE
  /\ iop = [cmd |-> <<>>, a |-> NoArgs, bulk |-> <<>>, addr |-> NULL, echoed |-> NoArgs]
  /\ clients = [c \in Clients |-> NoClient]
  /\ pages = {SIF0_PAGE, SIF1_PAGE}
  /\ lastReg = [w \in CmdIds |-> HandlerAt(SystemHandlers, UserHandlersInit, handler_from_cid(w))]
  /\ ends = [c \in Clients |-> NoEnds]
  /\ snd = [x \in Ctx |-> IdleSend]
  /\ th = [t \in Threads |-> IdleThread]
  /\ irq = "idle"
  /\ calls = <<>>
  /\ run = NoRun
  /\ rpc = [t \in Threads |-> NoRpc]
  /\ life = [c \in Clients |-> NoLife]
  /\ mem = [p \in ClientPages |-> Garbage]
  /\ boot = BootDone
  /\ mod = ModInit

\* The processor runs a thread only while it is not serving the interrupt (and
\* has not stopped in a BUG or an oops).
CpuFree == irq = "idle"

\* --------------------------------------------------------------- SIF1 write

sif1_ready_result_always(countout) == TRUE
sif1_ready_loop_nowait(busy, countout) == FALSE

\* sif1_ready: the loop goes on while the channel is busy and polls are left,
\* and its result is whether polls are left.
sif1_ready_loop(busy, countout) == busy /\ countout > 0
sif1_ready_result(countout) == countout > 0

aligned_size(hasHeader, nbytes) ==
  ALIGN((IF hasHeader THEN HEADER_SIZE ELSE 0) + nbytes, 16)

\* The checks of sif1_write_ert_int_0 before sif1_ready: "zero" returns 0,
\* "einval" returns -EINVAL, "ready" goes on to sif1_ready.
sif1_write_entry(hasHeader, nbytes) ==
  IF aligned_size(hasHeader, nbytes) = 0 THEN "zero"
  ELSE IF TAG_SIZE + aligned_size(hasHeader, nbytes) > SIF1_BUFFER_SIZE THEN "einval"
  ELSE "ready"

SendDone(a, err, bulkStarted) ==
  [pc |-> "done", phase |-> "none", a |-> a, countout |-> 0, err |-> err,
   bulkStarted |-> bulkStarted]

SendPoll(a, phase, bulkStarted) ==
  [pc |-> "ready", phase |-> phase, a |-> a, countout |-> PollBudget, err |-> 0,
   bulkStarted |-> bulkStarted]

\* sif1_write_irq(&header, iop_buffer, pkt, pktsize), up to sif1_ready.
EnterHeaderWrite(a, bulkStarted) ==
  LET e == sif1_write_entry(TRUE, Len(a.pkt)) IN
  IF e = "einval" THEN SendDone(a, -EINVAL, bulkStarted)
  ELSE SendPoll(a, "hdr", bulkStarted)

\* sif_cmd_opt_copy up to the first sif1_ready: the pktsize check, then
\* sif1_write(NULL, dst, src, nbytes), then (nothing to transfer) sif1_write_irq.
sif_cmd_opt_copy_entry(a) ==
  IF Len(a.pkt) > SIF_CMD_PACKET_DATA_MAX THEN SendDone(a, -EINVAL, FALSE)
  ELSE LET e == sif1_write_entry(FALSE, a.nbytes) IN
       IF e = "zero" THEN EnterHeaderWrite(a, FALSE)
       ELSE IF e = "einval" THEN SendDone(a, -EINVAL, FALSE)
       ELSE SendPoll(a, "bulk", FALSE)

\* iop_buffer: the satellite's command receive address (SUBADDR).
iop_buffer_addr == W(1, 4096)

\* What sif1_write_ert_int_0 copies to the staging buffer and hands to the
\* channel: the tag, then the header (if any), then the data.
Staged(x, f) ==
  LET hdr == f.phase = "hdr"
      n == IF hdr THEN Len(f.a.pkt) ELSE f.a.nbytes
      h == sif_cmd_header(f.a.cmd_id, f.a.opt, Len(f.a.pkt), f.a.dst, f.a.nbytes)
  IN [ctx |-> x,
      kind |-> f.phase,
      tag |-> [ert |-> hdr, int_0 |-> hdr,
               addr |-> IF hdr THEN iop_buffer_addr ELSE f.a.dst,
               wc |-> aligned_size(hdr, n) \div 4],
      bytes |-> IF hdr THEN EncodeHeader(h) \o f.a.pkt ELSE Bytes(f.a.src, f.a.nbytes),
      a |-> f.a]

\* One turn of the loop of sif1_ready in context x.
sif1_ready(x) ==
  /\ snd[x].pc = "ready"
  /\ IF x = "irq" THEN irq = "hsend" ELSE CpuFree
  /\ snd' = [snd EXCEPT ![x] =
       IF sif1_ready_loop(sif1.busy, @.countout)
       THEN [@ EXCEPT !.countout = @ - 1]
       ELSE IF sif1_ready_result(@.countout)
            THEN [@ EXCEPT !.pc = "write"]
            ELSE SendDone(@.a, -EBUSY, @.bulkStarted)]
  /\ UNCHANGED <<extVars, tableVars, sregs, sif1Vars, sif0Vars, iop, rpcVars, th, irqVars>>

\* The rest of sif1_write_ert_int_0 in context x: the copies to the staging
\* buffer and the start of the channel.  Starting a channel that is busy is
\* not defined by the hardware: the new transfer replaces the old one, or the
\* old one goes on, or neither arrives.
sif1_start(x) ==
  /\ snd[x].pc = "write"
  /\ IF x = "irq" THEN irq = "hsend" ELSE CpuFree
  /\ LET new == Staged(x, snd[x]) IN
     /\ sif1_buffer' = [tag |-> new.tag, bytes |-> new.bytes]
     /\ \E got \in (IF sif1.busy THEN {new, sif1.xfer, NoXfer} ELSE {new}) :
          sif1' = [busy |-> TRUE, xfer |-> got]
  /\ snd' = [snd EXCEPT ![x] =
       IF @.phase = "bulk" THEN EnterHeaderWrite(@.a, TRUE)
       ELSE SendDone(@.a, 0, @.bulkStarted)]
  /\ UNCHANGED <<extVars, tableVars, sregs, sif0Vars, iop, rpcVars, th, irqVars>>

\* The SIF1 channel ends its transfer: the satellite has the data; a transfer
\* with the interrupt flag is a command for it to serve, which it keeps for an
\* answer (keep) or serves at once without one.
Sif1Complete(keep) ==
  /\ sif1.busy
  /\ sif1' = [busy |-> FALSE, xfer |-> NoXfer]
  /\ iop' = IF sif1.xfer.kind = "hdr"
            THEN (IF keep THEN [iop EXCEPT !.cmd = sif1.xfer.bytes, !.a = sif1.xfer.a]
                  ELSE [iop EXCEPT !.cmd = <<>>, !.a = NoArgs])
            ELSE IF sif1.xfer.kind = "bulk"
            THEN [iop EXCEPT !.bulk = sif1.xfer.bytes, !.addr = sif1.xfer.tag.addr]
            ELSE iop
  /\ UNCHANGED <<extVars, tableVars, sregs, sif1_buffer, sif0Vars, rpcVars, snd, th, irqVars>>

\* ------------------------------------------------------------- RPC packets

\* The address of a client object, and the client at an address ("none" when
\* the address is no client's).
ClientAddr(c) == IF c = "c1" THEN W(32784, 0) ELSE W(32784, 64)
ClientAt(w) == IF \E c \in Clients : ClientAddr(c) = w
               THEN CHOOSE c \in Clients : ClientAddr(c) = w
               ELSE "none"

\* struct sif_rpc_bind_packet: header (rec_id, pkt_addr, rpc_id), client,
\* server_id.
BindPacket(client, server_id) == NULL \o NULL \o NULL \o client \o server_id

\* struct sif_rpc_request_end_packet: header, client, client_id, server,
\* server_buffer, client_buffer.
EndPacket(client, client_id, server, server_buffer) ==
  NULL \o NULL \o NULL \o client \o client_id \o server \o server_buffer \o NULL

\* A size as a 32-bit word.
U32(n) == W((n \div 65536) % 65536, n % 65536)

\* The physical address of a page (virt_to_phys), and the page at an address
\* (0 when it is no page of a client).
PageAddr(p) == W(0, p * 4096)
PageAt(w) == IF \E p \in ClientPages : PageAddr(p) = w
             THEN CHOOSE p \in ClientPages : PageAddr(p) = w
             ELSE 0

\* struct sif_rpc_call_packet: header (rec_id, pkt_addr, rpc_id), client,
\* rpc_id, send_size, recv_addr, recv_size, recv_mode, server.
CallPacket(client, rpc_id, send_size, recv_addr, recv_size, server) ==
  NULL \o NULL \o NULL \o client \o rpc_id \o U32(send_size) \o recv_addr
       \o U32(recv_size) \o W(0, 1) \o server

\* sif_cmd(cmd_id, pkt, pktsize)
CmdArgs(cmd_id, pkt) ==
  [cmd_id |-> cmd_id, opt |-> NULL, pkt |-> pkt, dst |-> NULL, src |-> 0, nbytes |-> 0]

\* A packet as the satellite puts it in the inbound buffer.
Packet(packet_size, data_size, data_addr, cmd, opt, payload) ==
  EncodeHeader([packet_size |-> packet_size, data_size |-> data_size,
                data_addr |-> data_addr, cmd |-> cmd, opt |-> opt]) \o payload

\* ------------------------------------------------------------ the satellite

\* The satellite's DMA puts a packet in the inbound buffer: possible only
\* while SIF0 is armed; the channel then stops and raises its interrupt.
Deliver(bytes, echoed) ==
  /\ sif0_chcr
  /\ sif0_buffer' = Overwrite(sif0_buffer, bytes)
  /\ sif0_chcr' = FALSE
  /\ irqPending' = TRUE
  /\ iop' = [iop EXCEPT !.cmd = <<>>, !.a = NoArgs, !.echoed = echoed]

\* The satellite sends a packet of its own.
SatSend(bytes) ==
  /\ Deliver(bytes, NoArgs)
  /\ UNCHANGED <<extVars, tableVars, sregs, sif1Vars, rpcVars, snd, th, irqVars>>

\* Loopback: the satellite sends back the command it received.
SatEcho ==
  /\ iop.cmd # <<>>
  /\ Deliver(iop.cmd, iop.a)
  /\ UNCHANGED <<extVars, tableVars, sregs, sif1Vars, rpcVars, snd, th, irqVars>>

\* The satellite has sent its answer to the operation op under way on client
\* c, after writing bytes D for it.
Answered(c, op, D) ==
  [t \in Threads |-> IF th[t].op = op /\ th[t].c = c
                     THEN [rpc[t] EXCEPT !.answered = TRUE, !.answer = D]
                     ELSE rpc[t]]

\* The satellite answers the RPC-bind command it received with an RPC-end of
\* bind kind for the same client.
SatBindReply(server, server_buffer) ==
  /\ iop.cmd # <<>>
  /\ DecodeHeader(iop.cmd).cmd = SIF_CMD_RPC_BIND
  /\ Deliver(Packet(HEADER_SIZE + 32, 0, NULL, SIF_CMD_RPC_END, NULL,
                    EndPacket(Field(iop.cmd, 4 + 3), SIF_CMD_RPC_BIND,
                              server, server_buffer)), NoArgs)
  /\ rpc' = Answered(ClientAt(Field(iop.cmd, 4 + 3)), "bind", <<>>)
  /\ UNCHANGED <<life, mem, boot, mod, tableVars, sregs, sif1Vars, rpcVars, snd, th, irqVars>>

\* The satellite answers the RPC-call command it received: it writes the first
\* recv_size bytes of D to the address recv_addr of the packet, then sends an
\* RPC-end of call kind for the client of the packet.
SatCallReply(D) ==
  /\ iop.cmd # <<>>
  /\ DecodeHeader(iop.cmd).cmd = SIF_CMD_RPC_CALL
  /\ LET p == PageAt(Field(iop.cmd, 4 + 6))
         n == Field(iop.cmd, 4 + 7)[1]
     IN /\ mem' = IF p \in ClientPages /\ n <= Len(D)
                  THEN [mem EXCEPT ![p] = Overwrite(@, SubSeq(D, 1, n))]
                  ELSE mem
        /\ rpc' = Answered(ClientAt(Field(iop.cmd, 4 + 3)), "call",
                           IF n <= Len(D) THEN SubSeq(D, 1, n) ELSE <<>>)
  /\ Deliver(Packet(HEADER_SIZE + 32, 0, NULL, SIF_CMD_RPC_END, NULL,
                    EndPacket(Field(iop.cmd, 4 + 3), SIF_CMD_RPC_CALL, NULL, NULL)), NoArgs)
  /\ UNCHANGED <<life, boot, mod, tableVars, sregs, sif1Vars, rpcVars, snd, th, irqVars>>

\* The satellite answers the RPC command it received with an RPC-end naming
\* the same client whose client_id field is client_id.
SatEndReply(client_id) ==
  /\ iop.cmd # <<>>
  /\ DecodeHeader(iop.cmd).cmd \in {SIF_CMD_RPC_BIND, SIF_CMD_RPC_CALL}
  /\ Deliver(Packet(HEADER_SIZE + 32, 0, NULL, SIF_CMD_RPC_END, NULL,
                    EndPacket(Field(iop.cmd, 4 + 3), client_id, NULL, NULL)),
             NoArgs)
  /\ UNCHANGED <<extVars, tableVars, sregs, sif1Vars, rpcVars, snd, th, irqVars>>

\* enum iop_heap_rpc_ops, and the thread that issues each operation on the
\* shared heap client: iop_alloc from one context, iop_free from the other.
rpo_alloc == 1
rpo_free == 2
HeapOp(t) == IF t = "t1" THEN rpo_alloc ELSE rpo_free
HeapCaller(rpc_id) == IF rpc_id = U32(rpo_alloc) THEN "t1" ELSE "t2"

\* What the heap server returns: an address for rpo_alloc, a status for
\* rpo_free.
HeapAnswer(rpc_id) ==
  IF rpc_id = U32(rpo_alloc) THEN [i \in 1..RecvMax |-> 16 + i]
  ELSE [i \in 1..RecvMax |-> 0]

\* The heap server answers the RPC-call it received: it writes the result of
\* the operation named by rpc_id to the address recv_addr of the packet, then
\* sends an RPC-end of call kind for the client of the packet.
SatHeapReply ==
  /\ iop.cmd # <<>>
  /\ DecodeHeader(iop.cmd).cmd = SIF_CMD_RPC_CALL
  /\ LET p == PageAt(Field(iop.cmd, 4 + 6))
         n == Field(iop.cmd, 4 + 7)[1]
         D == SubSeq(HeapAnswer(Field(iop.cmd, 4 + 4)), 1, n)
     IN /\ mem' = IF p \in ClientPages THEN [mem EXCEPT ![p] = Overwrite(@, D)]
                  ELSE mem
        /\ rpc' = [rpc EXCEPT ![HeapCaller(Field(iop.cmd, 4 + 4))] =
                     [@ EXCEPT !.answered = TRUE, !.answer = D]]
  /\ Deliver(Packet(HEADER_SIZE + 32, 0, NULL, SIF_CMD_RPC_END, NULL,
                    EndPacket(Field(iop.cmd, 4 + 3), SIF_CMD_RPC_CALL, NULL, NULL)), NoArgs)
  /\ UNCHANGED <<life, boot, mod, tableVars, sregs, sif1Vars, rpcVars, snd, th, irqVars>>

\* The satellite serves the command it received without answering.
SatConsume ==
  /\ iop.cmd # <<>>
  /\ iop' = [iop EXCEPT !.cmd = <<>>, !.a = NoArgs]
  /\ UNCHANGED <<extVars, tableVars, sregs, sif1Vars, sif0Vars, rpcVars, snd, th, irqVars>>

\* The interrupt is raised while SIF0 is still armed (nothing arrived).
IrqRaise ==
  /\ sif0_chcr /\ ~irqPending /\ irq = "idle"
  /\ irqPending' = TRUE
  /\ UNCHANGED <<extVars, tableVars, sregs, sif1Vars, sif0_buffer, sif0_chcr, iop, rpcVars,
                 snd, th, irqVars>>

\* --------------------------------------------------------- sif0_dma_handler

header == DecodeHeader(sif0_buffer)
payload == SubSeq(sif0_buffer, HEADER_SIZE + 1, SIF_CMD_PACKET_MAX)

sif0_busy_never == FALSE

\* sif0_busy(): the channel is armed and has not received its packet.
sif0_busy == sif0_chcr

\* The interrupt is served: sif0_dma_handler returns IRQ_NONE when the channel
\* is busy.
IrqEnter ==
  /\ irqPending /\ irq = "idle" /\ boot.irq
  /\ irqPending' = FALSE
  /\ calls' = <<>>
  /\ IF sif0_busy
     THEN /\ irq' = "idle"
          /\ run' = [NoRun EXCEPT !.outcome = "IRQ_NONE"]
     ELSE /\ irq' = "inv"
          /\ run' = [NoRun EXCEPT !.found_idle = TRUE, !.echo = iop.echoed,
                                  !.outcome = "running"]
  /\ UNCHANGED <<extVars, tableVars, sregs, sif1Vars, sif0_buffer, sif0_chcr, iop, rpcVars, snd, th>>

\* dma_cache_inv of the buffer and, when data_size is not 0, of the data.
IrqInvalidate ==
  /\ irq = "inv"
  /\ run' = [run EXCEPT !.inv_data = (header.data_size # 0)]
  /\ irq' = "validate"
  /\ UNCHANGED <<extVars, tableVars, sregs, sif1Vars, sif0Vars, iop, rpcVars, snd, th, calls>>

\* The packet_size check.
IrqValidate ==
  /\ irq = "validate"
  /\ IF packet_size_valid(header.packet_size)
     THEN /\ irq' = "call"
          /\ run' = [run EXCEPT !.size_ok = TRUE]
     ELSE /\ irq' = "rearm"
          /\ run' = [run EXCEPT !.outcome = "badsize"]
  /\ UNCHANGED <<extVars, tableVars, sregs, sif1Vars, sif0Vars, iop, rpcVars, snd, th, calls>>

\* What a handler is called with: the callback and its context, the header
\* and the inline data the header announces.
Invocation(h) ==
  [cb |-> h.cb, arg |-> h.arg, header |-> header,
   data |-> SubSeq(sif0_buffer, HEADER_SIZE + 1, header.packet_size)]

cmd_call_handler_skips_nocheck(ref, h) == FALSE

\* cmd_call_handler: no handler for the id, or no callback in it.
cmd_call_handler_skips(ref, h) == ref = NullRef \/ h.cb = "NULL"

\* cmd_rpc_end without its switch on the kind: the server fields are written
\* for an RPC-end of call kind too.
cmd_rpc_end_no_switch(c) ==
  LET kind == Field(payload, 4) IN
  IF kind # SIF_CMD_RPC_CALL /\ kind # SIF_CMD_RPC_BIND
  THEN /\ irq' = "bug"
       /\ UNCHANGED <<clients, ends>>
  ELSE IF c = "none"
  THEN /\ irq' \in {"oops", "rearm"}
       /\ UNCHANGED <<clients, ends>>
  ELSE /\ irq' = "rearm"
       /\ clients' = [clients EXCEPT ![c] =
            [@ EXCEPT !.server = Field(payload, 5),
                      !.server_buffer = Field(payload, 6), !.done = TRUE]]
       /\ ends' = [ends EXCEPT ![c] =
            [n |-> IF @.n < 2 THEN @.n + 1 ELSE 2, kind |-> kind,
             server |-> Field(payload, 5), server_buffer |-> Field(payload, 6)]]

\* cmd_rpc_end on a packet naming client c (a client, or "none").
cmd_rpc_end(c) ==
  LET kind == Field(payload, 4) IN
  IF kind # SIF_CMD_RPC_CALL /\ kind # SIF_CMD_RPC_BIND
  THEN /\ irq' = "bug"
       /\ UNCHANGED <<clients, ends>>
  ELSE IF c = "none"
  THEN /\ irq' \in {"oops", "rearm"}
       /\ UNCHANGED <<clients, ends>>
  ELSE /\ irq' = "rearm"
       /\ clients' = [clients EXCEPT ![c] =
            IF kind = SIF_CMD_RPC_BIND
            THEN [@ EXCEPT !.server = Field(payload, 5),
                           !.server_buffer = Field(payload, 6), !.done = TRUE]
            ELSE [@ EXCEPT !.done = TRUE]]
       /\ ends' = [ends EXCEPT ![c] =
            [n |-> IF @.n < 2 THEN @.n + 1 ELSE 2, kind |-> kind,
             server |-> Field(payload, 5), server_buffer |-> Field(payload, 6)]]

\* cmd_call_handler with the handlers of this repository: cmd_write_sreg,
\* cmd_irq_relay, cmd_rpc_end, cmd_rpc_bind, gamepad_event, and callbacks
\* ("cbA", "cbB") of other drivers.
IrqCall ==
  /\ irq = "call"
  /\ LET h == HandlerAt(sys_cmds, usr_cmds, handler_from_cid(header.cmd)) IN
     IF cmd_call_handler_skips(handler_from_cid(header.cmd), h)
     THEN /\ irq' = "rearm"
          /\ run' = [run EXCEPT !.outcome = "nohandler"]
          /\ UNCHANGED <<calls, sregs, clients, ends, snd>>
     ELSE /\ calls' = Append(calls, Invocation(h))
          /\ run' = [run EXCEPT !.outcome = "handled"]
          /\ IF h.cb = "cmd_write_sreg"
             THEN /\ UNCHANGED <<clients, ends, snd>>
                  /\ IF ~WordBelow(Field(payload, 0), SREGS_MAX)
                     THEN irq' = "bug" /\ UNCHANGED sregs
                     ELSE /\ irq' = "rearm"
                          /\ sregs' = [sregs EXCEPT ![Field(payload, 0)[1]] = Field(payload, 1)]
             ELSE IF h.cb = "cmd_rpc_end"
             THEN /\ cmd_rpc_end(ClientAt(Field(payload, 3)))
                  /\ UNCHANGED <<sregs, snd>>
             ELSE IF h.cb = "cmd_rpc_bind"
             THEN /\ snd' = [snd EXCEPT !["irq"] = sif_cmd_opt_copy_entry(
                       CmdArgs(SIF_CMD_RPC_END,
                               EndPacket(Field(payload, 3), SIF_CMD_RPC_BIND, NULL, NULL)))]
                  /\ irq' = "hsend"
                  /\ UNCHANGED <<sregs, clients, ends>>
             ELSE /\ irq' = "rearm"
                  /\ UNCHANGED <<sregs, clients, ends, snd>>
  /\ UNCHANGED <<extVars, tableVars, sif1Vars, sif0Vars, iop, pages, th>>

\* cmd_rpc_bind returns once its sif_cmd has (an error is only logged).
IrqSendReturn ==
  /\ irq = "hsend" /\ snd["irq"].pc = "done"
  /\ snd' = [snd EXCEPT !["irq"] = IdleSend]
  /\ irq' = "rearm"
  /\ UNCHANGED <<extVars, tableVars, sregs, sif1Vars, sif0Vars, iop, rpcVars, th, calls, run>>

\* sif0_reset_dma, and the return of IRQ_HANDLED.
sif0_reset_dma ==
  /\ irq = "rearm"
  /\ sif0_chcr' = TRUE
  /\ run' = [run EXCEPT !.rearms = @ + 1]
  /\ irq' = "idle"
  /\ UNCHANGED <<extVars, tableVars, sregs, sif1Vars, sif0_buffer, irqPending, iop, rpcVars,
                 snd, th, calls>>

\* ---------------------------------------------------------------- threads

\* A thread calls sif_cmd_opt_copy with arguments a.
ThSend(t, a) ==
  /\ CpuFree /\ th[t].op = "idle"
  /\ th' = [th EXCEPT ![t] = [IdleThread EXCEPT !.op = "send", !.pc = "send"]]
  /\ snd' = [snd EXCEPT ![t] = sif_cmd_opt_copy_entry(a)]
  /\ UNCHANGED <<extVars, tableVars, sregs, sif1Vars, sif0Vars, iop, rpcVars, irqVars>>

\* sif_cmd_opt_copy returns err to the thread, which goes on.
ThSendReturn(t) ==
  /\ CpuFree /\ th[t].op = "send" /\ th[t].pc = "send" /\ snd[t].pc = "done"
  /\ th' = [th EXCEPT ![t] = IdleThread]
  /\ snd' = [snd EXCEPT ![t] = IdleSend]
  /\ UNCHANGED <<extVars, tableVars, sregs, sif1Vars, sif0Vars, iop, rpcVars, irqVars>>

\* The operation of a thread has returned val; the thread goes on.
ThReturn(t) ==
  /\ CpuFree /\ th[t].pc = "ret"
  /\ th' = [th EXCEPT ![t] = IdleThread]
  /\ snd' = [snd EXCEPT ![t] = IdleSend]
  /\ rpc' = [rpc EXCEPT ![t] = NoRpc]
  /\ UNCHANGED <<life, mem, boot, mod, tableVars, sregs, sif1Vars, sif0Vars, iop, rpcVars, irqVars>>

\* sif_request_cmd(cmd_id, cb, arg)
sif_request_cmd(t, cmd_id, cb, arg) ==
  /\ CpuFree /\ th[t].op = "idle"
  /\ LET ref == handler_from_cid(cmd_id) IN
     IF ref = NullRef
     THEN /\ th' = [th EXCEPT ![t] = [IdleThread EXCEPT !.op = "request_cmd", !.pc = "ret",
                                                        !.val = -EINVAL, !.cmd = cmd_id]]
          /\ UNCHANGED tableVars
     ELSE /\ th' = [th EXCEPT ![t] = [IdleThread EXCEPT !.op = "request_cmd", !.pc = "ret",
                                                        !.val = 0, !.cmd = cmd_id]]
          /\ sys_cmds' = IF ref.sys THEN [sys_cmds EXCEPT ![ref.id] = [cb |-> cb, arg |-> arg]]
                         ELSE sys_cmds
          /\ usr_cmds' = IF ref.sys THEN usr_cmds
                         ELSE [usr_cmds EXCEPT ![ref.id] = [cb |-> cb, arg |-> arg]]
          /\ lastReg' = [lastReg EXCEPT ![cmd_id] = [cb |-> cb, arg |-> arg]]
  /\ UNCHANGED <<extVars, sregs, sif1Vars, sif0Vars, iop, rpcVars, snd, irqVars>>

\* What __get_free_page can return: a free page (the lowest, pages being
\* alike), or 0 (no memory).
FreePages ==
  LET free == {p \in (SIF1_PAGE + 1)..(SIF1_PAGE + MaxPages) : p \notin pages} IN
  {p \in free : \A q \in free : p <= q} \cup {0}

bind_result_always(server) == 0

\* The value sif_rpc_bind returns after the wait.
bind_result(server) == IF server # NULL THEN 0 ELSE -ENXIO

bind_client_init_keep(client) == client

\* memset(client, 0, sizeof(*client)) and init_completion(&client->done).
bind_client_init(client) == NoClient

\* sif_rpc_bind up to the first sif1_ready: memset, init_completion, the page
\* for the receive buffer, and the entry of sif_cmd(SIF_CMD_RPC_BIND).
sif_rpc_bind(t, c, server_id) ==
  /\ CpuFree /\ th[t].op = "idle"
  /\ \A u \in Threads : th[u].c # c
  /\ \E p \in FreePages :
       /\ clients' = [clients EXCEPT ![c] =
            [bind_client_init(@) EXCEPT !.client_size_max = SIF0_BUFFER_SIZE,
                                        !.client_buffer = p]]
       /\ ends' = [ends EXCEPT ![c] = NoEnds]
       /\ IF p = 0
          THEN /\ th' = [th EXCEPT ![t] = [IdleThread EXCEPT !.op = "bind", !.pc = "ret",
                                                             !.c = c, !.val = -ENOMEM]]
               /\ life' = [life EXCEPT ![c] = [state |-> "failed",
                                               rebind |-> (@.state = "unbound")]]
               /\ rpc' = [rpc EXCEPT ![t] = NoRpc]
               /\ UNCHANGED <<pages, snd>>
          ELSE /\ pages' = pages \cup {p}
               /\ th' = [th EXCEPT ![t] = [IdleThread EXCEPT !.op = "bind", !.pc = "send", !.c = c]]
               /\ life' = [life EXCEPT ![c] = [state |-> "binding",
                                               rebind |-> (@.state = "unbound")]]
               /\ rpc' = [rpc EXCEPT ![t] = [NoRpc EXCEPT !.sends = 1]]
               /\ snd' = [snd EXCEPT ![t] = sif_cmd_opt_copy_entry(
                            CmdArgs(SIF_CMD_RPC_BIND, BindPacket(ClientAddr(c), server_id)))]
  /\ UNCHANGED <<mem, boot, mod, tableVars, sregs, sif1Vars, sif0Vars, iop, irqVars>>

send_failed_never(err) == FALSE

\* if (err) after sif_cmd and sif_cmd_copy.
send_failed(err) == err # 0

\* sif_cmd has returned in sif_rpc_bind: on an error the page is freed and the
\* error returned, otherwise the thread waits.
bind_sent(t) ==
  /\ CpuFree /\ th[t].op = "bind" /\ th[t].pc = "send" /\ snd[t].pc = "done"
  /\ snd' = [snd EXCEPT ![t] = IdleSend]
  /\ IF send_failed(snd[t].err)
     THEN /\ pages' = pages \ {clients[th[t].c].client_buffer}
          /\ th' = [th EXCEPT ![t] = [@ EXCEPT !.pc = "ret", !.val = snd[t].err]]
          /\ life' = [life EXCEPT ![th[t].c].state = "failed"]
          /\ UNCHANGED rpc
     ELSE /\ th' = [th EXCEPT ![t] = [@ EXCEPT !.pc = "wait", !.sent = TRUE]]
          /\ rpc' = [rpc EXCEPT ![t].waited = TRUE]
          /\ UNCHANGED <<pages, life>>
  /\ UNCHANGED <<mem, boot, mod, tableVars, sregs, sif1Vars, sif0Vars, iop, clients, ends, irqVars>>

\* wait_for_completion(&client->done) returns.
bind_woken(t) ==
  /\ CpuFree /\ th[t].op = "bind" /\ th[t].pc = "wait"
  /\ clients[th[t].c].done
  /\ th' = [th EXCEPT ![t] = [@ EXCEPT !.pc = "woken"]]
  /\ UNCHANGED <<extVars, tableVars, sregs, sif1Vars, sif0Vars, iop, rpcVars, snd, irqVars>>

\* return client->server ? 0 : -ENXIO
bind_return(t) ==
  /\ CpuFree /\ th[t].op = "bind" /\ th[t].pc = "woken"
  /\ th' = [th EXCEPT ![t] = [@ EXCEPT !.pc = "ret", !.val = bind_result(clients[th[t].c].server)]]
  /\ life' = [life EXCEPT ![th[t].c].state =
       IF bind_result(clients[th[t].c].server) = 0 THEN "bound" ELSE "failed"]
  /\ UNCHANGED <<rpc, mem, boot, mod, tableVars, sregs, sif1Vars, sif0Vars, iop, rpcVars, snd, irqVars>>

\* An unbind that gives back the DMA buffers as well.
sif_rpc_unbind_put_dma_buffers(t, c) ==
  /\ CpuFree /\ th[t].op = "idle"
  /\ \A u \in Threads : th[u].c # c
  /\ life[c].state = "bound"
  /\ pages' = pages \ {clients[c].client_buffer, SIF0_PAGE, SIF1_PAGE}
  /\ life' = [life EXCEPT ![c].state = "unbound"]
  /\ UNCHANGED <<rpc, mem, boot, mod, tableVars, sregs, sif1Vars, sif0Vars, iop, clients, ends,
                 snd, th, irqVars>>

\* sif_rpc_unbind(client): the receive buffer is freed, the client object is
\* left as it is.
sif_rpc_unbind(t, c) ==
  /\ CpuFree /\ th[t].op = "idle"
  /\ \A u \in Threads : th[u].c # c
  /\ life[c].state = "bound"
  /\ pages' = pages \ {clients[c].client_buffer}
  /\ life' = [life EXCEPT ![c].state = "unbound"]
  /\ UNCHANGED <<rpc, mem, boot, mod, tableVars, sregs, sif1Vars, sif0Vars, iop, clients, ends,
                 snd, th, irqVars>>

\* What the caller's recv buffer holds before the call.
CallerRecv == [i \in 1..RecvMax |-> 85]

rpc_size_ok_never(recv_size, client_size_max) == TRUE

\* The recv_size check of sif_rpc_dma.
rpc_size_ok(recv_size, client_size_max) == recv_size <= client_size_max

reinit_completion_none(client) == client

\* reinit_completion(&client->done)
reinit_completion(client) == [client EXCEPT !.done = FALSE]

\* sif_rpc_dma up to the first sif1_ready: the recv_size check,
\* reinit_completion, and the entry of sif_cmd_copy(SIF_CMD_RPC_CALL).  (The
\* send_size check compares a 32-bit size with itself.)  Nothing in it looks
\* at what else is under way on the client.
sif_rpc_dma(t, c, rpc_id, send, send_size, recv_size) ==
  /\ CpuFree /\ th[t].op = "idle"
  /\ IF ~rpc_size_ok(recv_size, clients[c].client_size_max)
     THEN /\ th' = [th EXCEPT ![t] = [IdleThread EXCEPT !.op = "call", !.pc = "ret",
                                                        !.c = c, !.val = -EINVAL]]
          /\ rpc' = [rpc EXCEPT ![t] = [NoRpc EXCEPT !.recv_size = recv_size,
                                                     !.recv = CallerRecv]]
          /\ UNCHANGED <<clients, ends, snd>>
     ELSE /\ th' = [th EXCEPT ![t] = [IdleThread EXCEPT !.op = "call", !.pc = "send", !.c = c]]
          /\ rpc' = [rpc EXCEPT ![t] = [NoRpc EXCEPT !.recv_size = recv_size,
                                                     !.recv = CallerRecv, !.sends = 1]]
          /\ clients' = [clients EXCEPT ![c] = reinit_completion(@)]
          /\ ends' = [ends EXCEPT ![c] = NoEnds]
          /\ snd' = [snd EXCEPT ![t] = sif_cmd_opt_copy_entry(
                       [cmd_id |-> SIF_CMD_RPC_CALL, opt |-> NULL,
                        pkt |-> CallPacket(ClientAddr(c), rpc_id, send_size,
                                           PageAddr(clients[c].client_buffer), recv_size,
                                           clients[c].server),
                        dst |-> clients[c].server_buffer, src |-> send,
                        nbytes |-> send_size])]
  /\ UNCHANGED <<life, mem, boot, mod, tableVars, sregs, sif1Vars, sif0Vars, iop, pages, irqVars>>

\* sif_rpc from a caller that has the client to itself: no other thread has
\* an operation under way on it.
sif_rpc(t, c, rpc_id, send, send_size, recv_size) ==
  /\ \A u \in Threads : th[u].c # c
  /\ sif_rpc_dma(t, c, rpc_id, send, send_size, recv_size)

\* sif_cmd_copy has returned in sif_rpc_dma: an error is returned, otherwise
\* the thread waits.
call_sent(t) ==
  /\ CpuFree /\ th[t].op = "call" /\ th[t].pc = "send" /\ snd[t].pc = "done"
  /\ snd' = [snd EXCEPT ![t] = IdleSend]
  /\ IF send_failed(snd[t].err)
     THEN /\ th' = [th EXCEPT ![t] = [@ EXCEPT !.pc = "ret", !.val = snd[t].err]]
          /\ UNCHANGED rpc
     ELSE /\ th' = [th EXCEPT ![t] = [@ EXCEPT !.pc = "wait", !.sent = TRUE]]
          /\ rpc' = [rpc EXCEPT ![t].waited = TRUE]
  /\ UNCHANGED <<life, mem, boot, mod, tableVars, sregs, sif1Vars, sif0Vars, iop, rpcVars, irqVars>>

\* wait_for_completion(&client->done) returns in sif_rpc_dma.
call_woken(t) ==
  /\ CpuFree /\ th[t].op = "call" /\ th[t].pc = "wait"
  /\ clients[th[t].c].done
  /\ th' = [th EXCEPT ![t] = [@ EXCEPT !.pc = "woken"]]
  /\ UNCHANGED <<extVars, tableVars, sregs, sif1Vars, sif0Vars, iop, rpcVars, snd, irqVars>>

rpc_copy_none(recv, buf, recv_size) == recv

\* memcpy(recv, client->client_buffer, recv_size)
rpc_copy(recv, buf, recv_size) == Overwrite(recv, SubSeq(buf, 1, recv_size))

\* sif_rpc_dma returns 0 after the wait, and sif_rpc copies recv_size bytes of
\* the receive buffer to recv; with client_buffer NULL (the client of a bind
\* that got no page) the copy reads address 0 and the thread dies in an oops.
call_return(t) ==
  /\ CpuFree /\ th[t].op = "call" /\ th[t].pc = "woken"
  /\ LET p == clients[th[t].c].client_buffer IN
     IF rpc[t].recv_size = 0
     THEN /\ th' = [th EXCEPT ![t] = [@ EXCEPT !.pc = "ret", !.val = 0]]
          /\ UNCHANGED rpc
     ELSE IF p \notin ClientPages
     THEN /\ th' = [th EXCEPT ![t] = [@ EXCEPT !.pc = "oops"]]
          /\ UNCHANGED rpc
     ELSE /\ th' = [th EXCEPT ![t] = [@ EXCEPT !.pc = "ret", !.val = 0]]
          /\ rpc' = [rpc EXCEPT ![t].recv = rpc_copy(@, mem[p], rpc[t].recv_size)]
  /\ UNCHANGED <<life, mem, boot, mod, tableVars, sregs, sif1Vars, sif0Vars, iop, rpcVars, snd,
                 irqVars>>

\* ---------------------------------------------------------------- sif_init

\* The number of polls a wait of completed() makes before it gives up (5 s of
\* 1 ms sleeps in the code).
BootBudget == 2

\* IOP_RESET_ARGS: "rom0:UDNL rom0:OSDCNF".
IOP_RESET_ARGS ==
  <<114, 111, 109, 48, 58, 85, 68, 78, 76, 32,
    114, 111, 109, 48, 58, 79, 83, 68, 67, 78, 70>>

\* reset_pkt of iop_reset_arg: arglen, mode, arg[79 + 1].
ResetArgMax == 80
ResetPacket(arg) ==
  U32(Len(arg) + 1) \o NULL \o Overwrite(Zeros(ResetArgMax), arg)

\* arglen > sizeof(reset_pkt.arg) in iop_reset_arg.
iop_reset_arg_ok(arg) == Len(arg) + 1 <= ResetArgMax

\* sif_write_msflag sets the bits of mask in MSFLAG; sif_write_smflag clears
\* the bits of mask in SMFLAG.
sif_write_msflag(flags, mask) == flags \cup mask

sif_write_smflag_none(flags, mask) == flags

sif_write_smflag(flags, mask) == flags \ mask

\* The conditions completed() polls.
sif_smflag_cmdinit == SIF_STATUS_CMDINIT \in boot.smflag
sif_smflag_bootend == SIF_STATUS_BOOTEND \in boot.smflag

sif_sreg_rpcinit_always == TRUE

sif_sreg_rpcinit == sregs[0] # NULL

completed_expired_never(polls) == FALSE

\* time_is_after_jiffies(timeout) turns false: this was the last poll.
completed_expired(polls) == polls <= 1

completed_always(condition, polls) == "true"

\* One turn of the loop of completed(): "true" (the condition holds), "false"
\* (the time is up) or "sleep" (msleep(1) and another turn).
completed(condition, polls) ==
  IF condition THEN "true"
  ELSE IF completed_expired(polls) THEN "false" ELSE "sleep"

wait_error_busy == -EBUSY

\* completed(...) ? 0 : -EIO
wait_error == -EIO

\* What request_irq returns.
RequestIrqResults == {0, -ENOMEM}

\* The labels of the unwinding of sif_init and what is run from each on.
UnwindFreesIrq(label) == label \in {"err_rpc_init", "err_cmd_init"}
UnwindDisablesDma(label) ==
  label \in {"err_rpc_init", "err_cmd_init", "err_irq_sif0"}
UnwindPutsBuffers(label) == label # "err_dma_buffers"

\* sif_disable_dma on SIF1.
Sif1Stopped == [busy |-> FALSE, xfer |-> NoXfer]

\* goto label with err in sif_init, up to its return, from the state b of
\* sif_init.
UnwindFrom(b, err, label, expired) ==
  /\ boot' = [b EXCEPT !.pc = "returned", !.err = err, !.polls = 0,
                       !.irq = IF UnwindFreesIrq(label) THEN FALSE ELSE @,
                       !.expired = expired, !.label = label]
  /\ sif0_chcr' = IF UnwindDisablesDma(label) THEN FALSE ELSE sif0_chcr
  /\ sif1' = IF UnwindDisablesDma(label) THEN Sif1Stopped ELSE sif1
  /\ pages' = IF UnwindPutsBuffers(label) THEN pages \ {SIF0_PAGE, SIF1_PAGE}
              ELSE pages

Unwind(err, label, expired) == UnwindFrom(boot, err, label, expired)

\* msleep(1) in completed().
BootSleep ==
  /\ boot' = [boot EXCEPT !.polls = @ - 1]
  /\ UNCHANGED <<sif0_chcr, sif1, pages>>

\* sif_init up to the first wait: sif_disable_dma and get_dma_buffers, which
\* fails when either page is not to be had.
sif_init_start(t) ==
  /\ CpuFree /\ boot.pc = "start"
  /\ \E got \in BOOLEAN :
       IF got
       THEN /\ boot' = [boot EXCEPT !.pc = "subaddr1", !.polls = BootBudget,
                           !.trace = @ \o <<"sif_disable_dma", "get_dma_buffers">>]
            /\ pages' = pages \cup {SIF0_PAGE, SIF1_PAGE}
       ELSE /\ boot' = [boot EXCEPT !.pc = "returned", !.err = -ENOMEM,
                                    !.label = "err_dma_buffers",
                                    !.trace = @ \o <<"sif_disable_dma">>]
            /\ pages' = pages \ {SIF0_PAGE, SIF1_PAGE}
  /\ sif0_chcr' = FALSE
  /\ sif1' = Sif1Stopped
  /\ UNCHANGED <<mod, rpc, life, mem, tableVars, sregs, sif1_buffer, sif0_buffer, irqPending,
                 iop, clients, ends, snd, th, irqVars>>

\* sif_read_subaddr of the provisional SUBADDR; then sif_write_mainaddr_bootend
\* and iop_reset_arg up to its sif_cmd: BOOTEND is cleared in SMFLAG before
\* the reset command is handed to sif_cmd.
sif_read_subaddr_provisional(t) ==
  /\ CpuFree /\ boot.pc = "subaddr1"
  /\ LET r == completed(sif_smflag_cmdinit, boot.polls)
         b == [boot EXCEPT
                 !.msflag = sif_write_msflag(@, {SIF_STATUS_CMDINIT,
                                                 SIF_STATUS_BOOTEND}),
                 !.trace = @ \o <<"sif_read_subaddr",
                                  "sif_write_mainaddr_bootend">>] IN
     IF r = "sleep" THEN BootSleep /\ UNCHANGED snd
     ELSE IF r = "false"
     THEN Unwind(wait_error, "err_provisional_subaddr", TRUE) /\ UNCHANGED snd
     ELSE IF ~iop_reset_arg_ok(IOP_RESET_ARGS)
     THEN UnwindFrom(b, -EINVAL, "err_iop_reset", FALSE) /\ UNCHANGED snd
     ELSE /\ boot' = [b EXCEPT
                 !.pc = "reset_send", !.polls = 0,
                 !.smflag = sif_write_smflag(@, {SIF_STATUS_BOOTEND}),
                 !.stale = sif_write_smflag(@, {SIF_STATUS_BOOTEND})]
          /\ snd' = [snd EXCEPT ![t] = sif_cmd_opt_copy_entry(
                       CmdArgs(SIF_CMD_RESET_CMD, ResetPacket(IOP_RESET_ARGS)))]
          /\ UNCHANGED <<sif0_chcr, sif1, pages>>
  /\ UNCHANGED <<mod, rpc, life, mem, tableVars, sregs, sif1_buffer, sif0_buffer, irqPending,
                 iop, clients, ends, th, irqVars>>

\* sif_cmd has returned in iop_reset_arg: on success SIFINIT and CMDINIT are
\* cleared in SMFLAG and the wait for BOOTEND begins.
iop_reset_sent(t) ==
  /\ CpuFree /\ boot.pc = "reset_send" /\ snd[t].pc = "done"
  /\ snd' = [snd EXCEPT ![t] = IdleSend]
  /\ IF send_failed(snd[t].err)
     THEN Unwind(snd[t].err, "err_iop_reset", FALSE)
     ELSE /\ boot' = [boot EXCEPT
                 !.pc = "bootend", !.polls = BootBudget,
                 !.smflag = sif_write_smflag(@, {SIF_STATUS_SIFINIT,
                                                 SIF_STATUS_CMDINIT}),
                 !.stale = sif_write_smflag(@, {SIF_STATUS_SIFINIT,
                                                SIF_STATUS_CMDINIT})]
          /\ UNCHANGED <<sif0_chcr, sif1, pages>>
  /\ UNCHANGED <<mod, rpc, life, mem, tableVars, sregs, sif1_buffer, sif0_buffer, irqPending,
                 iop, clients, ends, th, irqVars>>

\* completed(sif_smflag_bootend) in iop_reset_arg; then the final
\* sif_write_mainaddr_bootend.
iop_reset_wait(t) ==
  /\ CpuFree /\ boot.pc = "bootend"
  /\ LET r == completed(sif_smflag_bootend, boot.polls) IN
     IF r = "sleep" THEN BootSleep
     ELSE IF r = "false" THEN Unwind(wait_error, "err_iop_reset", TRUE)
     ELSE /\ boot' = [boot EXCEPT
                 !.pc = "subaddr2", !.polls = BootBudget,
                 !.msflag = sif_write_msflag(@, {SIF_STATUS_CMDINIT,
                                                 SIF_STATUS_BOOTEND}),
                 !.trace = @ \o <<"iop_reset", "sif_write_mainaddr_bootend">>]
          /\ UNCHANGED <<sif0_chcr, sif1, pages>>
  /\ UNCHANGED <<mod, rpc, life, mem, tableVars, sregs, sif1_buffer, sif0_buffer, irqPending,
                 iop, clients, ends, snd, th, irqVars>>

\* sif_read_subaddr of the final SUBADDR.
sif_read_subaddr_final(t) ==
  /\ CpuFree /\ boot.pc = "subaddr2"
  /\ LET r == completed(sif_smflag_cmdinit, boot.polls) IN
     IF r = "sleep" THEN BootSleep
     ELSE IF r = "false" THEN Unwind(wait_error, "err_final_subaddr", TRUE)
     ELSE /\ boot' = [boot EXCEPT !.pc = "request_cmds", !.polls = 0,
                                  !.trace = @ \o <<"sif_read_subaddr">>]
          /\ UNCHANGED <<sif0_chcr, sif1, pages>>
  /\ UNCHANGED <<mod, rpc, life, mem, tableVars, sregs, sif1_buffer, sif0_buffer, irqPending,
                 iop, clients, ends, snd, th, irqVars>>

sif_request_cmds_none(sys) == sys

\* The table of system handlers after sif_request_cmds: the four handlers of
\* its cmds[] are written over whatever their slots held.
sif_request_cmds(sys) ==
  [i \in 0..(CMD_HANDLER_MAX - 1) |->
     IF SystemHandlers[i] # NoHandler THEN SystemHandlers[i] ELSE sys[i]]

\* sif_request_cmds in sif_init.
sif_init_request_cmds(t) ==
  /\ CpuFree /\ boot.pc = "request_cmds"
  /\ sys_cmds' = sif_request_cmds(sys_cmds)
  /\ lastReg' = [w \in CmdIds |->
                   IF w \in {SIF_CMD_WRITE_SREG, SIF_CMD_IRQ_RELAY,
                             SIF_CMD_RPC_END, SIF_CMD_RPC_BIND}
                   THEN HandlerAt(sys_cmds', usr_cmds, handler_from_cid(w))
                   ELSE lastReg[w]]
  /\ boot' = [boot EXCEPT !.pc = "reset_dma",
                          !.trace = @ \o <<"sif_request_cmds">>]
  /\ UNCHANGED <<mod, rpc, life, mem, usr_cmds, sregs, sif1Vars, sif0Vars, iop,
                 clients, pages, ends, snd, th, irqVars>>

\* sif0_reset_dma in sif_init: SIF0 is armed.
sif_init_reset_dma(t) ==
  /\ CpuFree /\ boot.pc = "reset_dma"
  /\ sif0_chcr' = TRUE
  /\ boot' = [boot EXCEPT !.pc = "request_irq",
                          !.trace = @ \o <<"sif0_reset_dma">>]
  /\ UNCHANGED <<mod, rpc, life, mem, tableVars, sregs, sif1Vars, sif0_buffer,
                 irqPending, iop, clients, pages, ends, snd, th, irqVars>>

\* request_irq in sif_init; then sif_cmd_init up to its sif_cmd_opt.
sif_init_request_irq(t) ==
  /\ CpuFree /\ boot.pc = "request_irq"
  /\ \E e \in RequestIrqResults :
       IF e # 0
       THEN Unwind(e, "err_irq_sif0", FALSE) /\ UNCHANGED snd
       ELSE /\ boot' = [boot EXCEPT !.pc = "cmdinit_send", !.irq = TRUE,
                                    !.trace = @ \o <<"request_irq">>]
            /\ snd' = [snd EXCEPT ![t] = sif_cmd_opt_copy_entry(
                         CmdArgs(SIF_CMD_INIT_CMD, PageAddr(SIF0_PAGE)))]
            /\ UNCHANGED <<sif0_chcr, sif1, pages>>
  /\ UNCHANGED <<mod, rpc, life, mem, tableVars, sregs, sif1_buffer, sif0_buffer, irqPending,
                 iop, clients, ends, th, irqVars>>

\* sif_cmd_opt has returned in sif_cmd_init; then sif_rpc_init up to its
\* sif_cmd_opt(SIF_CMD_INIT_CMD, 1, NULL, 0).
sif_cmd_init_sent(t) ==
  /\ CpuFree /\ boot.pc = "cmdinit_send" /\ snd[t].pc = "done"
  /\ IF send_failed(snd[t].err)
     THEN /\ Unwind(snd[t].err, "err_cmd_init", FALSE)
          /\ snd' = [snd EXCEPT ![t] = IdleSend]
     ELSE /\ boot' = [boot EXCEPT !.pc = "rpcinit_send",
                                  !.trace = @ \o <<"sif_cmd_init">>]
          /\ snd' = [snd EXCEPT ![t] = sif_cmd_opt_copy_entry(
                       [CmdArgs(SIF_CMD_INIT_CMD, <<>>) EXCEPT !.opt = W(0, 1)])]
          /\ UNCHANGED <<sif0_chcr, sif1, pages>>
  /\ UNCHANGED <<mod, rpc, life, mem, tableVars, sregs, sif1_buffer, sif0_buffer, irqPending,
                 iop, clients, ends, th, irqVars>>

\* sif_cmd_opt has returned in sif_rpc_init.
sif_rpc_init_sent(t) ==
  /\ CpuFree /\ boot.pc = "rpcinit_send" /\ snd[t].pc = "done"
  /\ snd' = [snd EXCEPT ![t] = IdleSend]
  /\ IF send_failed(snd[t].err)
     THEN Unwind(snd[t].err, "err_rpc_init", FALSE)
     ELSE /\ boot' = [boot EXCEPT !.pc = "rpcinit", !.polls = BootBudget]
          /\ UNCHANGED <<sif0_chcr, sif1, pages>>
  /\ UNCHANGED <<mod, rpc, life, mem, tableVars, sregs, sif1_buffer, sif0_buffer, irqPending,
                 iop, clients, ends, th, irqVars>>

\* completed(sif_sreg_rpcinit) in sif_rpc_init, and the return of sif_init.
sif_rpc_init_wait(t) ==
  /\ CpuFree /\ boot.pc = "rpcinit"
  /\ LET r == completed(sif_sreg_rpcinit, boot.polls) IN
     IF r = "sleep" THEN BootSleep
     ELSE IF r = "false" THEN Unwind(wait_error, "err_rpc_init", TRUE)
     ELSE /\ boot' = [boot EXCEPT !.pc = "done", !.polls = 0,
                                  !.trace = @ \o <<"sif_rpc_init">>]
          /\ UNCHANGED <<sif0_chcr, sif1, pages>>
  /\ UNCHANGED <<mod, rpc, life, mem, tableVars, sregs, sif1_buffer, sif0_buffer, irqPending,
                 iop, clients, ends, snd, th, irqVars>>

\* The satellite sets a bit of SMFLAG.
SatSetFlag(bit) ==
  /\ bit \notin boot.smflag
  /\ boot' = [boot EXCEPT !.smflag = @ \cup {bit}]
  /\ UNCHANGED <<mod, rpc, life, mem, tableVars, sregs, sif1Vars, sif0Vars, iop, rpcVars, snd,
                 th, irqVars>>

\* ----------------------------------------------------------- specifications

\* What the threads send in Spec: a command without bulk data, and one with
\* 16 bytes of bulk data.
SendPlain == CmdArgs(W(0, 63), <<1, 2, 3>>)
SendBulk == [cmd_id |-> W(0, 34), opt |-> W(0, 5), pkt |-> <<9, 8, 7, 6>>,
             dst |-> W(0, 12288), src |-> 1, nbytes |-> 16]
SendMenu(t) == IF t = "t1" THEN {SendPlain, SendBulk} ELSE {SendPlain}

\* The satellite asks to bind to a server of the main processor: cmd_rpc_bind
\* answers from the interrupt handler.
IopBind == Packet(HEADER_SIZE + 20, 0, NULL, SIF_CMD_RPC_BIND, NULL,
                  BindPacket(W(16, 256), W(0, 3)))

IrqNext ==
  \/ IrqEnter
  \/ IrqInvalidate
  \/ IrqValidate
  \/ IrqCall
  \/ IrqSendReturn
  \/ sif0_reset_dma

\* Senders in two threads and in the interrupt handler, over one SIF1 channel.
Next ==
  \/ \E t \in Threads : \E a \in SendMenu(t) : ThSend(t, a)
  \/ \E t \in Threads : ThSendReturn(t)
  \/ \E x \in Ctx : sif1_ready(x)
  \/ \E x \in Ctx : sif1_start(x)
  \/ Sif1Complete(FALSE)
  \/ SatSend(IopBind)
  \/ IrqNext

Spec == Init /\ [][Next]_vars

\* A send and its loopback, one at a time: the threads act only while nothing
\* is under way.
Quiet ==
  /\ irq = "idle" /\ ~irqPending /\ sif0_chcr
  /\ ~sif1.busy /\ iop.cmd = <<>>
  /\ \A x \in Ctx : snd[x].pc = "idle"
  /\ \A t \in Threads : th[t].op = "idle"

\* What the thread sends in SpecLoopback: no inline packet, 3 bytes, the
\* largest inline packet (96 bytes) and one byte more, bulk data of 20 bytes,
\* bulk data larger than the staging buffer and than the data_size field, and
\* a command id out of range.
LoopbackSends ==
  {[cmd_id |-> W(0, 34), opt |-> NULL, pkt |-> <<>>, dst |-> NULL, src |-> 0, nbytes |-> 0],
   [cmd_id |-> SIF_CMD_GAMEPAD, opt |-> W(65535, 65535), pkt |-> Bytes(3, 3), dst |-> NULL,
    src |-> 0, nbytes |-> 0],
   [cmd_id |-> W(0, 63), opt |-> W(32768, 1), pkt |-> Bytes(5, SIF_CMD_PACKET_DATA_MAX),
    dst |-> NULL, src |-> 0, nbytes |-> 0],
   [cmd_id |-> W(0, 63), opt |-> NULL, pkt |-> Bytes(5, SIF_CMD_PACKET_DATA_MAX + 1),
    dst |-> NULL, src |-> 0, nbytes |-> 0],
   [cmd_id |-> W(0, 34), opt |-> W(0, 7), pkt |-> Bytes(9, 20), dst |-> W(0, 12288),
    src |-> 1, nbytes |-> 20],
   [cmd_id |-> W(0, 34), opt |-> NULL, pkt |-> <<>>, dst |-> W(0, 12288),
    src |-> 1, nbytes |-> SIF1_BUFFER_SIZE - TAG_SIZE + 1],
   [cmd_id |-> W(0, 34), opt |-> NULL, pkt |-> <<>>, dst |-> W(0, 12288),
    src |-> 1, nbytes |-> 16777216 + 16],
   [cmd_id |-> W(0, 64), opt |-> NULL, pkt |-> <<1>>, dst |-> NULL, src |-> 0, nbytes |-> 0]}

\* The registrations of SpecLoopback: index 34 in both tables, the last index,
\* and indices out of range; two callbacks of other drivers, and NULL.
LoopbackIds == {W(0, 34), SIF_CMD_GAMEPAD, W(0, 63), W(0, 64), W(32768, 64), W(1, 0),
                W(32767, 65535)}
LoopbackHandlers == {[cb |-> "cbA", arg |-> 1], [cb |-> "cbB", arg |-> 2], NoHandler}

NextLoopback ==
  \/ Quiet /\ \E c \in LoopbackIds : \E h \in LoopbackHandlers :
       sif_request_cmd("t1", c, h.cb, h.arg)
  \/ ThReturn("t1")
  \/ Quiet /\ \E a \in LoopbackSends : ThSend("t1", a)
  \/ ThSendReturn("t1")
  \/ sif1_ready("t1")
  \/ sif1_start("t1")
  \/ Sif1Complete(TRUE)
  \/ SatEcho
  \/ IrqEnter
  \/ IrqInvalidate
  \/ IrqValidate
  \/ IrqCall
  \/ sif0_reset_dma

SpecLoopback == Init /\ [][NextLoopback]_vars

\* The packets of a satellite that misbehaves, in SpecInbound: packet_size 15
\* and 113 (with data announced); a command id out of range; an id never
\* registered; the gamepad id; RPC-end of an unknown kind, of call kind and of
\* bind kind, and RPC-end naming no client; write-register with index 32 and
\* with index 0; an interrupt relay.
InboundPackets ==
  {Packet(15, 0, NULL, SIF_CMD_RPC_END, NULL, <<>>),
   Packet(113, 32, W(16, 0), SIF_CMD_IRQ_RELAY, NULL, W(0, 1)),
   Packet(HEADER_SIZE, 0, NULL, W(32768, 64), NULL, <<>>),
   Packet(HEADER_SIZE, 0, NULL, SIF_CMD_RPC_RDATA, NULL, <<>>),
   Packet(HEADER_SIZE + 3, 0, NULL, SIF_CMD_GAMEPAD, NULL, <<0, 1, 2>>),
   Packet(HEADER_SIZE + 32, 0, NULL, SIF_CMD_RPC_END, NULL,
          EndPacket(ClientAddr("c1"), NULL, NULL, NULL)),
   Packet(HEADER_SIZE + 32, 0, NULL, SIF_CMD_RPC_END, NULL,
          EndPacket(ClientAddr("c1"), SIF_CMD_RPC_CALL, NULL, NULL)),
   Packet(HEADER_SIZE + 32, 0, NULL, SIF_CMD_RPC_END, NULL,
          EndPacket(ClientAddr("c2"), SIF_CMD_RPC_BIND, W(0, 4096), W(0, 8192))),
   Packet(HEADER_SIZE + 32, 0, NULL, SIF_CMD_RPC_END, NULL,
          EndPacket(W(0, 4), SIF_CMD_RPC_CALL, NULL, NULL)),
   Packet(HEADER_SIZE + 8, 0, NULL, SIF_CMD_WRITE_SREG, NULL, W(0, 32) \o W(0, 1)),
   Packet(HEADER_SIZE + 8, 0, NULL, SIF_CMD_WRITE_SREG, NULL, W(0, 0) \o W(0, 0)),
   Packet(HEADER_SIZE + 4, 0, NULL, SIF_CMD_IRQ_RELAY, NULL, W(0, 9))}

\* The gamepad driver registers its handler, and (gamepad_init failing)
\* registers NULL in its place.
NextInbound ==
  \/ \E p \in InboundPackets : SatSend(p)
  \/ SatSend(IopBind)
  \/ IrqRaise
  \/ IrqNext
  \/ sif1_ready("irq")
  \/ sif1_start("irq")
  \/ Sif1Complete(FALSE)
  \/ \E cb \in {"gamepad_event", "NULL"} : sif_request_cmd("t1", SIF_CMD_GAMEPAD, cb, 0)
  \/ ThReturn("t1")

SpecInbound == Init /\ [][NextInbound]_vars

\* The lengths of the inline packet sif_cmd is called with: every length it
\* accepts, and the first it rejects.
PktLens == 0..(SIF_CMD_PACKET_DATA_MAX + 1)

\* One thread sends commands with inline packets of every length.
NextHeader ==
  \/ \E n \in PktLens : ThSend("t1", CmdArgs(W(0, 34), Zeros(n)))
  \/ ThSendReturn("t1")
  \/ sif1_ready("t1")
  \/ sif1_start("t1")
  \/ Sif1Complete(FALSE)

SpecHeader == Init /\ [][NextHeader]_vars

\* The servers a satellite can answer a bind with: none (0), or a server and
\* its buffer.
BindAnswers == {[server |-> NULL, server_buffer |-> NULL],
                [server |-> W(0, 4096), server_buffer |-> W(0, 8192)]}

\* Each thread binds the client structure it owns.
ClientOf(t) == IF t = "t1" THEN "c1" ELSE "c2"

\* Binds from two threads, with a satellite that answers, does not answer, or
\* sends an RPC-end of call kind that nobody asked for.
NextRpc ==
  \/ \E t \in Threads : sif_rpc_bind(t, ClientOf(t), W(0, 3))
  \/ \E t \in Threads : bind_sent(t)
  \/ \E t \in Threads : bind_woken(t)
  \/ \E t \in Threads : bind_return(t)
  \/ \E t \in Threads : ThReturn(t)
  \/ \E t \in Threads : sif1_ready(t)
  \/ \E t \in Threads : sif1_start(t)
  \/ Sif1Complete(TRUE)
  \/ \E r \in BindAnswers : SatBindReply(r.server, r.server_buffer)
  \/ SatConsume
  \/ SatSend(Packet(HEADER_SIZE + 32, 0, NULL, SIF_CMD_RPC_END, NULL,
                    EndPacket(ClientAddr("c1"), SIF_CMD_RPC_CALL, NULL, NULL)))
  \/ IrqEnter
  \/ IrqInvalidate
  \/ IrqValidate
  \/ IrqCall
  \/ sif0_reset_dma

SpecRpc == Init /\ [][NextRpc]_vars

\* What the satellite answers a call with, and what the caller asks for.
CallAnswers == {[i \in 1..RecvMax |-> i], [i \in 1..RecvMax |-> 160 + i]}
CallSendSizes == {2, SIF1_BUFFER_SIZE - TAG_SIZE + 1}
CallRecvSizes == {0, RecvMax - 1, SIF0_BUFFER_SIZE + 1}

\* The thread starts an operation when nothing is under way and the satellite
\* has served what it received.
CallQuiet == irq = "idle" /\ ~irqPending /\ sif0_chcr /\ iop.cmd = <<>> /\ ~sif1.busy

\* An RPC-end of call kind for client c1 that answers nothing.
StrayEnd == Packet(HEADER_SIZE + 32, 0, NULL, SIF_CMD_RPC_END, NULL,
                   EndPacket(ClientAddr("c1"), SIF_CMD_RPC_CALL, NULL, NULL))

\* One thread binds, calls and unbinds one client; the satellite answers,
\* does not answer, or sends an RPC-end nobody asked for.
NextCall ==
  \/ CallQuiet /\ sif_rpc_bind("t1", "c1", W(0, 3))
  \/ bind_sent("t1")
  \/ bind_woken("t1")
  \/ bind_return("t1")
  \/ CallQuiet /\ sif_rpc_unbind("t1", "c1")
  \/ CallQuiet /\ \E ss \in CallSendSizes : \E rs \in CallRecvSizes :
       sif_rpc("t1", "c1", W(0, 7), 1, ss, rs)
  \/ call_sent("t1")
  \/ call_woken("t1")
  \/ call_return("t1")
  \/ ThReturn("t1")
  \/ sif1_ready("t1")
  \/ sif1_start("t1")
  \/ Sif1Complete(TRUE)
  \/ \E r \in BindAnswers : SatBindReply(r.server, r.server_buffer)
  \/ \E D \in CallAnswers : SatCallReply(D)
  \/ SatConsume
  \/ th["t1"].pc = "wait" /\ SatSend(StrayEnd)
  \/ IrqEnter
  \/ IrqInvalidate
  \/ IrqValidate
  \/ IrqCall
  \/ sif0_reset_dma

SpecCall == Init /\ [][NextCall]_vars

\* sif_exit: sif_disable_dma, free_irq and put_dma_buffers, when the module
\* is unloaded (nothing of it is in use any more).
sif_exit ==
  /\ CallQuiet /\ \A t \in Threads : th[t].op = "idle"
  /\ boot.pc = "done"
  /\ boot' = [boot EXCEPT !.pc = "exited", !.irq = FALSE]
  /\ sif0_chcr' = FALSE
  /\ sif1' = Sif1Stopped
  /\ pages' = pages \ {SIF0_PAGE, SIF1_PAGE}
  /\ UNCHANGED <<rpc, life, mem, mod, tableVars, sregs, sif1_buffer, sif0_buffer, irqPending,
                 iop, clients, ends, snd, th, irqVars>>

\* The operations of SpecCall from a successful sif_init until sif_exit.
NextLifetime ==
  \/ boot.pc = "done" /\ NextCall
  \/ sif_exit

SpecLifetime == Init /\ [][NextLifetime]_vars

\* The heap client is bound once (iop_heap_init); then two contexts call it
\* at any moment, iop_alloc from one and iop_free from the other, and the
\* heap server takes one command at a time and answers every one.
NextShared ==
  \/ /\ life["c1"].state = "never"
     /\ CallQuiet /\ sif_rpc_bind("t1", "c1", W(0, 3))
  \/ bind_sent("t1")
  \/ bind_woken("t1")
  \/ bind_return("t1")
  \/ \E t \in Threads :
       /\ life["c1"].state = "bound"
       /\ \A u \in Threads : th[u].op # "bind"
       /\ sif_rpc_dma(t, "c1", U32(HeapOp(t)), 1, 2, RecvMax)
  \/ \E t \in Threads : call_sent(t)
  \/ \E t \in Threads : call_woken(t)
  \/ \E t \in Threads : call_return(t)
  \/ \E t \in Threads : ThReturn(t)
  \/ \E t \in Threads : sif1_ready(t)
  \/ \E t \in Threads : sif1_start(t)
  \/ iop.cmd = <<>> /\ Sif1Complete(TRUE)
  \/ SatBindReply(W(0, 4096), W(0, 8192))
  \/ SatHeapReply
  \/ IrqEnter
  \/ IrqInvalidate
  \/ IrqValidate
  \/ IrqCall
  \/ sif0_reset_dma

SpecShared == Init /\ [][NextShared]_vars

\* The thread starts its binds and calls at any moment, also while the SIF1
\* channel is busy with the transfer of an earlier one; the satellite answers
\* every command.
NextBusy ==
  \/ sif_rpc_bind("t1", "c1", W(0, 3))
  \/ bind_sent("t1")
  \/ bind_woken("t1")
  \/ bind_return("t1")
  \/ sif_rpc_unbind("t1", "c1")
  \/ \E ss \in CallSendSizes : sif_rpc("t1", "c1", W(0, 7), 1, ss, RecvMax - 1)
  \/ call_sent("t1")
  \/ call_woken("t1")
  \/ call_return("t1")
  \/ ThReturn("t1")
  \/ sif1_ready("t1")
  \/ sif1_start("t1")
  \/ Sif1Complete(TRUE)
  \/ SatBindReply(W(0, 4096), W(0, 8192))
  \/ SatCallReply([i \in 1..RecvMax |-> i])
  \/ IrqEnter
  \/ IrqInvalidate
  \/ IrqValidate
  \/ IrqCall
  \/ sif0_reset_dma

SpecBusy == Init /\ [][NextBusy]_vars

\* The steps of the interrupt handler, and the steps of a caller that was
\* woken: the interrupt is served and a runnable thread is scheduled.
IrqServed ==
  IrqEnter \/ IrqInvalidate \/ IrqValidate \/ IrqCall \/ sif0_reset_dma

CallerScheduled(t) ==
  bind_woken(t) \/ bind_return(t) \/ call_woken(t) \/ call_return(t)

\* One thread binds and calls; the satellite answers every command with an
\* RPC-end naming the client, of the kind of the command or of another kind.
NextLive ==
  \/ CallQuiet /\ sif_rpc_bind("t1", "c1", W(0, 3))
  \/ bind_sent("t1")
  \/ CallQuiet /\ sif_rpc("t1", "c1", W(0, 7), 1, 2, RecvMax - 1)
  \/ call_sent("t1")
  \/ CallerScheduled("t1")
  \/ ThReturn("t1")
  \/ sif1_ready("t1")
  \/ sif1_start("t1")
  \/ Sif1Complete(TRUE)
  \/ SatBindReply(W(0, 4096), W(0, 8192))
  \/ SatCallReply([i \in 1..RecvMax |-> i])
  \/ SatEndReply(SIF_CMD_INIT_CMD)
  \/ IrqServed

SpecLive ==
  /\ Init /\ [][NextLive]_vars
  /\ WF_vars(IrqServed)
  /\ WF_vars(CallerScheduled("t1"))

\* sif_init has not run: no buffers, no handlers, the interrupt handler not
\* installed, the channels in whatever state the boot loader left them, and
\* the satellite with CMDINIT set in SMFLAG or not yet.
InitBoot ==
  /\ sys_cmds = UserHandlersInit
  /\ usr_cmds = UserHandlersInit
  /\ sregs = [i \in 0..(SREGS_MAX - 1) |-> NULL]
  /\ sif1_buffer = [tag |-> NoTag, bytes |-> <<>>]
  /\ sif1 = Sif1Stopped
  /\ sif0_buffer = Zeros(SIF_CMD_PACKET_MAX)
  /\ sif0_chcr \in BOOLEAN
  /\ irqPending = FALSE
  /\ iop = [cmd |-> <<>>, a |-> NoArgs, bulk |-> <<>>, addr |-> NULL, echoed |-> NoArgs]
  /\ clients = [c \in Clients |-> NoClient]
  /\ pages = {}
  /\ lastReg = [w \in CmdIds |-> NoHandler]
  /\ ends = [c \in Clients |-> NoEnds]
  /\ snd = [x \in Ctx |-> IdleSend]
  /\ th = [t \in Threads |-> IdleThread]
  /\ irq = "idle"
  /\ calls = <<>>
  /\ run = NoRun
  /\ rpc = [t \in Threads |-> NoRpc]
  /\ life = [c \in Clients |-> NoLife]
  /\ mem = [p \in ClientPages |-> Garbage]
  /\ \E f \in SUBSET {SIF_STATUS_CMDINIT, SIF_STATUS_BOOTEND} :
       boot = BootStart(f)
  /\ mod = ModInit

\* The packet by which the satellite writes val to status register reg.
WriteSreg(reg, val) ==
  Packet(HEADER_SIZE + 8, 0, NULL, SIF_CMD_WRITE_SREG, NULL, reg \o val)

\* sif_init runs once; the satellite sets its flags, takes the commands and
\* reports RPC readiness whenever it does, or never.
NextBoot ==
  \/ sif_init_start("t1")
  \/ sif_read_subaddr_provisional("t1")
  \/ iop_reset_sent("t1")
  \/ iop_reset_wait("t1")
  \/ sif_read_subaddr_final("t1")
  \/ sif_init_request_cmds("t1")
  \/ sif_init_reset_dma("t1")
  \/ sif_init_request_irq("t1")
  \/ sif_cmd_init_sent("t1")
  \/ sif_rpc_init_sent("t1")
  \/ sif_rpc_init_wait("t1")
  \/ sif1_ready("t1")
  \/ sif1_start("t1")
  \/ Sif1Complete(FALSE)
  \/ \E bit \in {SIF_STATUS_CMDINIT, SIF_STATUS_BOOTEND} : SatSetFlag(bit)
  \/ sregs[0] = NULL /\ SatSend(WriteSreg(W(0, 0), W(0, 1)))
  \/ IrqServed

SpecBoot == InitBoot /\ [][NextBoot]_vars

\* The conforming satellite.  It has CMDINIT set when sif_init is entered.
InitConform == InitBoot /\ SIF_STATUS_CMDINIT \in boot.entry

\* The satellite takes the reset command it received: it will set BOOTEND and
\* CMDINIT, in either order.
SatTakeReset ==
  /\ iop.cmd # <<>> /\ iop.a.cmd_id = SIF_CMD_RESET_CMD
  /\ iop' = [iop EXCEPT !.cmd = <<>>, !.a = NoArgs]
  /\ boot' = [boot EXCEPT !.owes = {SIF_STATUS_BOOTEND, SIF_STATUS_CMDINIT}]
  /\ UNCHANGED <<mod, rpc, life, mem, tableVars, sregs, sif1Vars, sif0Vars, rpcVars,
                 snd, th, irqVars>>

\* The satellite sets a flag it owes after the reset.
SatOwedFlag(bit) ==
  /\ bit \in boot.owes
  /\ boot' = [boot EXCEPT !.smflag = @ \cup {bit}, !.owes = @ \ {bit}]
  /\ UNCHANGED <<mod, rpc, life, mem, tableVars, sregs, sif1Vars, sif0Vars, iop,
                 rpcVars, snd, th, irqVars>>

\* The satellite answers an init directive it received: it writes 1 to status
\* register 0.
SatTakeInit ==
  /\ iop.cmd # <<>> /\ iop.a.cmd_id = SIF_CMD_INIT_CMD
  /\ SatSend(WriteSreg(W(0, 0), W(0, 1)))

\* Something is left to do for the satellite, the channels or the interrupt.
SatPending ==
  sif1.busy \/ iop.cmd # <<>> \/ boot.owes # {} \/ irqPending

\* The satellite and the channels act within the poll budget: no wait of
\* sif_init and no poll of sif1_ready gives up while they have work left.
InTime == SatPending => ~completed_expired(boot.polls)
Sif1InTime(x) == sif1.busy => snd[x].countout > 1

\* sif_init runs once against the conforming satellite, with the memory and
\* the interrupt line it asks for.
NextConform ==
  \/ sif_init_start("t1") /\ boot'.pc # "returned"
  \/ InTime /\ sif_read_subaddr_provisional("t1")
  \/ iop_reset_sent("t1")
  \/ InTime /\ iop_reset_wait("t1")
  \/ InTime /\ sif_read_subaddr_final("t1")
  \/ sif_init_request_cmds("t1")
  \/ sif_init_reset_dma("t1")
  \/ sif_init_request_irq("t1") /\ boot'.pc # "returned"
  \/ sif_cmd_init_sent("t1")
  \/ sif_rpc_init_sent("t1")
  \/ InTime /\ sif_rpc_init_wait("t1")
  \/ Sif1InTime("t1") /\ sif1_ready("t1")
  \/ sif1_start("t1")
  \/ Sif1Complete(TRUE)
  \/ SatTakeReset
  \/ \E bit \in {SIF_STATUS_CMDINIT, SIF_STATUS_BOOTEND} : SatOwedFlag(bit)
  \/ SatTakeInit
  \/ IrqServed

SpecConform == InitConform /\ [][NextConform]_vars

\* What each caller of iop_module_request asks for: t1 any module in any
\* version, t2 the gamepad module as gamepad.c does.
ModRequests(t) ==
  IF t = "t1" THEN (ModNames \X Versions \X {1})
                   \cup {<<NameGamepad, BcdVersion(1, 0), IOPMOD_MAX_ARG>>}
  ELSE {<<NameGamepad, BcdVersion(1, 0), IOPMOD_MAX_ARG - 1>>}

\* Two callers of iop_module_request, again and again.
NextModule ==
  \E t \in Threads :
    \/ \E r \in ModRequests(t) : iop_module_request(t, r[1], r[2], r[3])
    \/ mutex_lock(t)
    \/ iop_module_request_firmware(t)
    \/ request_firmware(t)
    \/ iop_module_link_buffer(t)
    \/ rpo_mod_buf_load(t)
    \/ register_libraries(t)
    \/ iop_free(t)
    \/ mutex_unlock(t)
    \/ iop_module_returned(t)

SpecModule == Init /\ [][NextModule]_vars

\* ------------------------------------------------------------------- claims

\* The step in which context x copies to the staging buffer and starts SIF1.
StartStep(x) == snd[x].pc = "write" /\ snd'[x] # snd[x]

\* C2: at most one outbound transfer is in flight: no send rewrites the
\* staging buffer or starts SIF1 while a transfer started before is still busy.
C2_OneTransferInFlight ==
  [][\A x \in Ctx : StartStep(x) => ~sif1.busy]_vars

\* C3: in a send with bulk data, the bulk transfer (to the destination
\* address, without header and without interrupt flag) is started first, and
\* the header transfer (with the interrupt flag) only afterwards, and never
\* while SIF1 is still busy with that bulk transfer.
C3_BulkBeforeHeader ==
  [][\A x \in Ctx :
       (StartStep(x) /\ snd[x].a.nbytes > 0) =>
         IF snd[x].phase = "bulk"
         THEN /\ ~snd[x].bulkStarted
              /\ sif1_buffer'.tag.addr = snd[x].a.dst
              /\ ~sif1_buffer'.tag.int_0
              /\ sif1_buffer'.bytes = Bytes(snd[x].a.src, snd[x].a.nbytes)
              /\ snd'[x].phase = "hdr" /\ snd'[x].pc = "ready"
         ELSE /\ snd[x].bulkStarted
              /\ ~(sif1.busy /\ sif1.xfer.ctx = x /\ sif1.xfer.kind = "bulk")
              /\ sif1_buffer'.tag.int_0
              /\ DecodeHeader(sif1_buffer'.bytes).data_size = snd[x].a.nbytes]_vars

C3_Witness ==
  \E x \in Ctx : snd[x].pc = "done" /\ snd[x].err = 0 /\ snd[x].bulkStarted
                 /\ snd[x].a.nbytes > 0

\* C4: a send polls the busy channel a bounded number of times: each poll
\* uses up one of the polls left, and with none left the send returns -EBUSY
\* without having written the staging buffer or started the channel.
C4_BoundedPollThenBusy ==
  [][\A x \in Ctx :
       (snd[x].pc = "ready" /\ snd'[x] # snd[x]) =>
         /\ snd'[x].pc = "ready" => /\ sif1.busy
                                    /\ snd'[x].countout = snd[x].countout - 1
                                    /\ snd'[x].countout >= 0
         /\ snd[x].countout = 0 => /\ snd'[x].pc = "done"
                                   /\ snd'[x].err = -EBUSY
                                   /\ UNCHANGED sif1Vars]_vars

C4_Witness ==
  \E x \in Ctx : snd[x].pc = "done" /\ snd[x].err = -EBUSY /\ sif1.busy


\* The handler invocation a loopback of send arguments a to the handler h
\* should make.
Loopback(a, h) ==
  [cb |-> h.cb, arg |-> h.arg,
   header |-> [packet_size |-> HEADER_SIZE + Len(a.pkt), data_size |-> a.nbytes,
               data_addr |-> a.dst, cmd |-> a.cmd_id, opt |-> a.opt],
   data |-> a.pkt]

\* C1: when the satellite echoes a command that was sent successfully, and the
\* command id has a registered handler, the dispatch invokes that handler once
\* with the command id, option word, inline data bytes, bulk data address and
\* bulk data length that were sent.
C1_LoopbackRoundTrip ==
  (irq = "rearm" /\ run.echo # NoArgs /\ lastReg[run.echo.cmd_id].cb # "NULL")
    => calls = <<Loopback(run.echo, lastReg[run.echo.cmd_id])>>

C1_Witness ==
  /\ irq = "rearm" /\ run.echo # NoArgs /\ Len(calls) = 1
  /\ Len(run.echo.pkt) = SIF_CMD_PACKET_DATA_MAX
  /\ run.echo.opt = W(32768, 1)
  /\ calls[1].cb = "cbB"

\* C5: a dispatched command id invokes the callback and context of the most
\* recent successful registration for exactly that id and nothing else (no
\* callback at all when that registration stored NULL or there was none); an
\* id with the system bit and the id without it have separate handlers.
C5_LastRegistrationWins ==
  (irq = "rearm" /\ run.size_ok)
    => calls = IF lastReg[header.cmd].cb = "NULL" THEN <<>>
               ELSE <<Invocation(lastReg[header.cmd])>>

C5_Witness ==
  /\ irq = "rearm" /\ run.size_ok /\ header.cmd = W(0, 34)
  /\ Len(calls) = 1 /\ calls[1].cb = "cbA"
  /\ lastReg[SIF_CMD_GAMEPAD].cb = "cbB"

\* C6: registering a handler for a command id whose index (the id without
\* the system bit) is 64 or more returns -EINVAL and leaves both handler
\* tables unchanged.
C6_RegisterOutOfRange ==
  [][\A t \in Threads :
       (th[t].op = "idle" /\ th'[t].op = "request_cmd"
        /\ ~WordBelow(ClearSys(th'[t].cmd), CMD_HANDLER_MAX))
         => (th'[t].val = -EINVAL /\ UNCHANGED <<sys_cmds, usr_cmds>>)]_vars

C6_Witness ==
  /\ th["t1"].op = "request_cmd" /\ th["t1"].cmd = W(1, 0) /\ th["t1"].val = -EINVAL
  /\ usr_cmds[0] = NoHandler

\* C7: no handler is invoked for an inbound packet whose packet_size is below
\* 16 or above 112, whose command index is 64 or more, whose id was never
\* registered, or whose id was last registered with a NULL callback.
C7_NoHandlerInvoked ==
  (irq # "idle" /\ run.found_idle /\ calls # <<>>)
    => /\ header.packet_size >= HEADER_SIZE
       /\ header.packet_size <= SIF_CMD_PACKET_MAX
       /\ WordBelow(ClearSys(header.cmd), CMD_HANDLER_MAX)
       /\ header.cmd \in DOMAIN lastReg
       /\ lastReg[header.cmd].cb # "NULL"

C7_Witness ==
  /\ irq = "rearm" /\ calls = <<>> /\ run.outcome = "nohandler"
  /\ header.cmd = SIF_CMD_GAMEPAD /\ lastReg[SIF_CMD_GAMEPAD].cb = "NULL"
  /\ th["t1"].cmd = SIF_CMD_GAMEPAD

\* C8: every run of the interrupt handler that finds the channel idle ends by
\* re-arming the channel exactly once.
C8_RearmedOnce ==
  (run.found_idle /\ irq \in {"idle", "bug", "oops"}) => run.rearms = 1

\* C9: the dispatch of an inbound packet never reaches BUG().
C9_NoBug == irq # "bug"

\* C10: when the RPC-bind command was sent and the one RPC-end the client
\* received is of bind kind with server S and server buffer B, sif_rpc_bind
\* returns 0 exactly when S is not 0, the client then holds S and B, and it
\* returns -ENXIO when S is 0.
C10_BindResult ==
  \A t \in Threads :
    (th[t].op = "bind" /\ th[t].pc = "ret" /\ th[t].sent
     /\ ends[th[t].c].n = 1 /\ ends[th[t].c].kind = SIF_CMD_RPC_BIND)
      => LET S == ends[th[t].c].server
             B == ends[th[t].c].server_buffer
         IN /\ (th[t].val = 0) <=> (S # NULL)
            /\ (S # NULL) => /\ clients[th[t].c].server = S
                             /\ clients[th[t].c].server_buffer = B
            /\ (S = NULL) => th[t].val = -ENXIO

C10_Witness ==
  /\ th["t1"].op = "bind" /\ th["t1"].pc = "ret" /\ th["t1"].sent /\ th["t1"].val = 0
  /\ ends[th["t1"].c].n = 1 /\ ends[th["t1"].c].kind = SIF_CMD_RPC_BIND
  /\ clients[th["t1"].c].server = W(0, 4096)
  /\ clients[th["t1"].c].server_buffer = W(0, 8192)

C12_OversizeRecvRejected ==
  [][\A t \in Threads :
       (th[t].op = "idle" /\ th'[t].op = "call"
        /\ rpc'[t].recv_size > clients[th'[t].c].client_size_max)
         => /\ th'[t].pc = "ret" /\ th'[t].val = -EINVAL
            /\ ~th'[t].sent
            /\ UNCHANGED <<sif1Vars, snd, clients, mem>>
            /\ rpc'[t].sends = 0 /\ ~rpc'[t].waited
            /\ rpc'[t].recv = CallerRecv]_vars

C12_Witness ==
  /\ th["t1"].op = "call" /\ th["t1"].pc = "ret" /\ th["t1"].val = -EINVAL
  /\ life["c1"].state = "bound"
  /\ rpc["t1"].recv_size = SIF0_BUFFER_SIZE + 1
  /\ rpc["t1"].recv = CallerRecv /\ ~rpc["t1"].waited

\* C13: a call on a client that is not bound (never bound, bind failed,
\* unbound) returns -EINVAL and sends nothing, whatever recv_size is.
C13_CallNeedsBound ==
  [][\A t \in Threads :
       (th[t].op = "idle" /\ th'[t].op = "call"
        /\ life[th'[t].c].state # "bound")
         => /\ th'[t].pc = "ret" /\ th'[t].val = -EINVAL
            /\ UNCHANGED <<sif1Vars, snd>>]_vars

\* C14: a call on a bound client that was sent, and whose answer (the
\* satellite writes its result to the receive page, then sends the RPC-end) is
\* the one RPC-end dispatched for the client since the call began, returns 0
\* and the first recv_size bytes of recv are the bytes the satellite wrote.
\* The answer was sent and no inbound packet is left to dispatch, so the one
\* RPC-end counted is the answer.
C14_CallRoundTrip ==
  \A t \in Threads :
    (th[t].op = "call" /\ th[t].pc = "ret" /\ th[t].sent
     /\ life[th[t].c].state = "bound"
     /\ rpc[t].answered /\ ends[th[t].c].n = 1
     /\ sif0_chcr /\ ~irqPending /\ irq = "idle")
      => /\ th[t].val = 0
         /\ SubSeq(rpc[t].recv, 1, rpc[t].recv_size) = rpc[t].answer
         /\ Len(rpc[t].answer) = rpc[t].recv_size

C14_Witness ==
  /\ th["t1"].op = "call" /\ th["t1"].pc = "ret" /\ th["t1"].sent
  /\ th["t1"].val = 0 /\ life["c1"].state = "bound"
  /\ rpc["t1"].answered /\ ends["c1"].n = 1
  /\ sif0_chcr /\ ~irqPending /\ irq = "idle"
  /\ rpc["t1"].recv_size = RecvMax - 1
  /\ SubSeq(rpc["t1"].recv, 1, RecvMax - 1) = [i \in 1..(RecvMax - 1) |-> 160 + i]

\* C15: a bind or call whose command was sent is resumed only after the
\* RPC-end the satellite sent in answer to that operation was dispatched.
C15_ResumedByMatchingEnd ==
  \A t \in Threads :
    (th[t].op \in {"bind", "call"} /\ th[t].sent
     /\ th[t].pc \in {"woken", "ret"})
      => rpc[t].answered /\ ends[th[t].c].n >= 1

\* C17: when the send inside a bind or call fails, the operation returns the
\* error of the send without waiting and without sending again, and a call
\* leaves recv as it was.
C17_SendFailureReturned ==
  [][\A t \in Threads :
       (th[t].op \in {"bind", "call"} /\ th[t].pc = "send"
        /\ snd[t].pc = "done" /\ snd[t].err # 0 /\ th'[t] # th[t])
         => /\ th'[t].pc = "ret" /\ th'[t].val = snd[t].err
            /\ ~th'[t].sent
            /\ snd'[t] = IdleSend
            /\ rpc'[t].sends = 1 /\ ~rpc'[t].waited
            /\ rpc'[t].recv = rpc[t].recv]_vars

C17_Witness ==
  /\ th["t1"].op = "call" /\ th["t1"].pc = "ret" /\ th["t1"].val = -EBUSY
  /\ ~th["t1"].sent /\ ~rpc["t1"].waited /\ rpc["t1"].sends = 1
  /\ rpc["t1"].recv = CallerRecv

\* C16: when the command of a bind, or of a call on a bound client, was sent
\* and an RPC-end naming the client is delivered while the caller waits, then,
\* the interrupt being served, the caller is eventually resumed and returns, a
\* call with 0.
C16_EndResumesCaller ==
  \A t \in Threads :
    (/\ th[t].op \in {"bind", "call"} /\ th[t].pc = "wait" /\ th[t].sent
     /\ th[t].op = "call" => life[th[t].c].state = "bound"
     /\ irqPending /\ header.cmd = SIF_CMD_RPC_END
     /\ ClientAt(Field(payload, 3)) = th[t].c)
      ~> (th[t].pc = "ret" /\ (th[t].op = "call" => th[t].val = 0))

\* C18: while the satellite has not set CMDINIT, every poll of the wait before
\* the provisional address read uses up one of the BootBudget polls, and the
\* last one makes sif_init return a failure with both DMA buffers freed.
C18_ProvisionalWaitBounded ==
  [][(boot.pc = "subaddr1" /\ ~sif_smflag_cmdinit /\ boot' # boot
      /\ boot'.smflag = boot.smflag)
       => /\ boot.polls \in 1..BootBudget
          /\ IF boot.polls > 1
             THEN boot'.pc = "subaddr1" /\ boot'.polls = boot.polls - 1
             ELSE /\ boot'.pc = "returned" /\ boot'.err < 0 /\ boot'.expired
                  /\ pages' \cap {SIF0_PAGE, SIF1_PAGE} = {}]_vars

C18_Witness ==
  /\ boot.pc = "returned" /\ boot.label = "err_provisional_subaddr"
  /\ boot.expired /\ boot.err < 0
  /\ SIF_STATUS_CMDINIT \notin boot.smflag
  /\ pages = {}

C20_UnwindComplete ==
  (boot.pc = "returned" /\ boot.label # "err_dma_buffers")
    => /\ ~boot.irq
       /\ ~sif0_chcr /\ ~sif1.busy
       /\ pages \cap {SIF0_PAGE, SIF1_PAGE} = {}
       /\ boot.err < 0
       /\ boot.expired => boot.err = -EIO
       /\ boot.label = "err_irq_sif0" => boot.err = -ENOMEM

\* C23: in a call the completion is reset before the transfer of the RPC-call
\* command is started (when SIF1 starts it, the completion is not done unless
\* an RPC-end was dispatched since the reset), and an RPC-end dispatched since
\* then is not lost, also when it comes before the caller waits: the
\* completion stays done until the wait has returned.
C23_ResetBeforeTransfer ==
  [][\A t \in Threads :
       LET c == th[t].c IN
       /\ (th[t].op = "call" /\ sif1' # sif1 /\ sif1'.busy
           /\ sif1'.xfer.ctx = t /\ sif1'.xfer.kind = "hdr")
            => (~clients[c].done \/ ends[c].n >= 1)
       /\ (th'[t].op = "call" /\ th'[t].pc \in {"send", "wait"}
           /\ ends'[th'[t].c].n >= 1)
            => clients'[th'[t].c].done]_vars

C23_Witness ==
  /\ th["t1"].op = "call" /\ th["t1"].pc = "send" /\ snd["t1"].pc = "done"
  /\ snd["t1"].err = 0 /\ life["c1"].state = "bound"
  /\ rpc["t1"].answered /\ ends["c1"].n = 1 /\ clients["c1"].done
  /\ irq = "idle"

\* C29: inbound packets are dispatched one at a time.  While sif0_dma_handler
\* is between its entry and its re-arming, SIF0 is stopped and the inbound
\* buffer is not written; SIF0 is re-armed only by the last step of the
\* handler, after the size check and the handler call have ended; and a run of
\* the handler begins only when no run is under way.
C29_OnePacketAtATime ==
  [][/\ irq' \in {"inv", "validate", "call", "hsend", "rearm"} => ~sif0_chcr'
     /\ sif0_buffer' # sif0_buffer => irq = "idle"
     /\ (sif0_chcr' /\ ~sif0_chcr)
          => /\ irq = "rearm" /\ irq' = "idle"
             /\ run.outcome \in {"handled", "nohandler", "badsize"}
             /\ snd["irq"].pc = "idle"
     /\ (irq' = "inv" /\ irq # "inv") => irq = "idle"]_vars

C29_Witness ==
  /\ irq = "hsend" /\ snd["irq"].pc = "ready" /\ ~sif0_chcr
  /\ run.outcome = "handled" /\ run.found_idle
  /\ Len(calls) = 1 /\ calls[1].cb = "cmd_rpc_bind"

BootInOrder ==
  \E n \in 0..Len(BootOrder) : boot.trace = SubSeq(BootOrder, 1, n)

\* What the calls of sif_init leave once all have succeeded: the buffers,
\* MAINADDR advertised, BOOTEND and CMDINIT seen, the system handlers, SIF0
\* armed at least once with the handler installed, RPC readiness seen.
BootEstablished ==
  /\ {SIF0_PAGE, SIF1_PAGE} \subseteq pages
  /\ boot.msflag = {SIF_STATUS_CMDINIT, SIF_STATUS_BOOTEND}
  /\ {SIF_STATUS_CMDINIT, SIF_STATUS_BOOTEND} \subseteq boot.smflag
  /\ \A i \in 0..(CMD_HANDLER_MAX - 1) :
       SystemHandlers[i] # NoHandler => sys_cmds[i] = SystemHandlers[i]
  /\ boot.irq
  /\ sregs[0] # NULL

SystemHandlersRegistered ==
  \A i \in 0..(CMD_HANDLER_MAX - 1) :
    SystemHandlers[i] # NoHandler => sys_cmds[i] = SystemHandlers[i]

\* sif0_reset_dma of sif_init has run.
Sif0WasArmed ==
  \E i \in 1..Len(boot.trace) : boot.trace[i] = "sif0_reset_dma"

\* C25: whenever the SIF0 interrupt handler is installed, and whenever it
\* runs, the four system handlers are registered and SIF0 has been armed by
\* sif_init before.
C25_HandlersBeforeIrq ==
  (boot.irq \/ irq # "idle") => (SystemHandlersRegistered /\ Sif0WasArmed)

C25_Witness ==
  /\ boot.irq /\ boot.pc \in {"cmdinit_send", "rpcinit_send", "rpcinit"}
  /\ irq = "call"
  /\ SystemHandlersRegistered /\ Sif0WasArmed

\* C26 as stated: while sif_init is sending the init-RPC directive, some
\* status register has been seen nonzero.
C26_ConfirmedBeforeRpcInit ==
  boot.pc = "rpcinit_send"
    => \E i \in 0..(SREGS_MAX - 1) : sregs[i] # NULL

\* C26: sif_init sends the init-RPC directive in the step in which the send
\* of the init-commands directive has returned success, without a wait in
\* between; it waits (bounded) only after the init-RPC send has returned
\* success, and returns success only when status register 0 is nonzero.
C26_InitOrder ==
  [][/\ (boot'.pc = "rpcinit_send" /\ boot.pc # "rpcinit_send")
          => /\ boot.pc = "cmdinit_send"
             /\ snd["t1"].pc = "done" /\ snd["t1"].err = 0
             /\ snd["t1"].a.cmd_id = SIF_CMD_INIT_CMD
             /\ snd["t1"].a.opt = W(0, 0)
             /\ snd["t1"].a.pkt = PageAddr(SIF0_PAGE)
             /\ boot.polls = 0 /\ boot'.polls = 0
             /\ snd'["t1"].a.cmd_id = SIF_CMD_INIT_CMD
             /\ snd'["t1"].a.opt = W(0, 1)
             /\ snd'["t1"].pc # "idle"
     /\ (boot'.pc = "rpcinit" /\ boot.pc # "rpcinit")
          => /\ boot.pc = "rpcinit_send"
             /\ snd["t1"].pc = "done" /\ snd["t1"].err = 0
             /\ boot'.polls = BootBudget
     /\ (boot'.pc = "done" /\ boot.pc # "done")
          => boot.pc = "rpcinit" /\ sregs[0] # NULL]_vars

C26_Witness ==
  /\ boot.pc = "rpcinit_send" /\ snd["t1"].pc = "done" /\ snd["t1"].err = 0
  /\ snd["t1"].a.opt = W(0, 1)
  /\ \A i \in 0..(SREGS_MAX - 1) : sregs[i] = NULL

\* SIF1 starts the transfer of the reset command.
ResetCommandIssued ==
  /\ ~sif1.busy /\ sif1'.busy
  /\ sif1'.xfer.a.cmd_id = SIF_CMD_RESET_CMD

\* C27: BOOTEND is cleared in SMFLAG before the reset command is issued, and
\* sif_init goes on past iop_reset only in a step that sees BOOTEND set by
\* the satellite after that clearing: a BOOTEND left from before sif_init
\* never satisfies the wait.
C27_FreshBootEnd ==
  [][/\ (boot'.pc = "reset_send" /\ boot.pc # "reset_send")
          => /\ SIF_STATUS_BOOTEND \notin boot'.smflag
             /\ ~ResetCommandIssued
     /\ ResetCommandIssued => SIF_STATUS_BOOTEND \notin boot.stale
     /\ (boot.pc = "bootend" /\ boot'.pc \notin {"bootend", "returned"})
          => /\ boot'.pc = "subaddr2"
             /\ SIF_STATUS_BOOTEND \in boot.smflag
             /\ SIF_STATUS_BOOTEND \notin boot.stale]_vars

C27_Witness ==
  /\ boot.pc = "subaddr2"
  /\ SIF_STATUS_BOOTEND \in boot.entry
  /\ SIF_STATUS_BOOTEND \in boot.smflag
  /\ SIF_STATUS_BOOTEND \notin boot.stale

\* C28: against the conforming satellite, acting within the poll budget,
\* sif_init never returns an error, whatever the order of the satellite's
\* steps and its own.
C28_ConformingBootSucceeds == boot.pc # "returned"

\* The caller t is in iop_module_request between the lookup in
\* linked_libraries and the end of register_libraries.
InLink(t) ==
  mod.th[t].pc \in {"lookup", "firmware", "link", "rpc", "register", "free", "unlock"}

\* C21: whenever iop_module_request(name, version) has returned 0, a module
\* of that name is linked in the IOP and its version is compatible with the
\* one requested, also when the request found the library in
\* linked_libraries; and a module is linked only for a request its version
\* is compatible with.
C21_CompatibleOnSuccess ==
  \A t \in Threads :
    /\ (mod.th[t].pc = "returned" /\ mod.th[t].err = 0)
         => \E m \in mod.iop :
              /\ m.name = mod.th[t].name
              /\ version_compatible(m.version, mod.th[t].version)
    /\ mod.th[t].pc \in {"link", "rpc", "register"}
         => version_compatible(FirmwareVersion(mod.th[t].name), mod.th[t].version)

\* C22: at most one caller is between the lookup in linked_libraries and the
\* end of register_libraries, that caller holds iop_module_lock, and a caller
\* that waits for the mutex, has returned or is not in a request does not
\* hold it.
C22_LinkExclusive ==
  /\ \A t, u \in Threads : (InLink(t) /\ InLink(u)) => t = u
  /\ \A t \in Threads : InLink(t) <=> mod.lock = t
  /\ (\A t \in Threads : ~InLink(t)) => mod.lock = "none"

C22_Witness ==
  /\ mod.th["t1"].pc = "register" /\ mod.lock = "t1"
  /\ mod.th["t2"].pc = "lock"
  /\ mod.libs # <<>>

\* C31: sif0_dma_handler invalidates the data named by the header (data_size
\* bytes at data_addr) only after packet_size has passed its check, and a
\* run that drops the packet for its packet_size has not touched that data.
C31_ValidateBeforePayload ==
  /\ run.inv_data => run.size_ok
  /\ run.outcome = "badsize" => ~run.inv_data

\* C32: a send from sif0_dma_handler (cmd_rpc_bind answering with RPC-end)
\* polls the busy SIF1 channel with a budget strictly smaller than the one
\* of a send from a thread: it never has the whole of PollBudget to use.
C32_ShortIrqBudget ==
  snd["irq"].pc = "ready" => snd["irq"].countout < PollBudget

\* The receive page of client c is also the page of another client that is
\* being bound or is bound.
HeldByOther(c) ==
  \E d \in Clients \ {c} :
    /\ clients[d].client_buffer = clients[c].client_buffer
    /\ life[d].state \in {"binding", "bound"}

\* C33: when sif_rpc_bind returns an error (-ENOMEM, the error of the send,
\* -ENXIO), the page it allocated for the receive buffer has been freed.
C33_FailedBindHoldsNothing ==
  \A t \in Threads :
    (th[t].op = "bind" /\ th[t].pc = "ret" /\ th[t].val < 0)
      => (clients[th[t].c].client_buffer \in pages => HeldByOther(th[t].c))


\* A step in which cmd_call_handler calls cmd_rpc_end, the handler of the
\* packet in the receive buffer.
RpcEndDispatch ==
  /\ irq = "call"
  /\ calls' # calls
  /\ ~cmd_call_handler_skips(handler_from_cid(header.cmd),
                             HandlerAt(sys_cmds, usr_cmds, handler_from_cid(header.cmd)))
  /\ HandlerAt(sys_cmds, usr_cmds, handler_from_cid(header.cmd)).cb = "cmd_rpc_end"

\* C34: dispatching an RPC-end packet changes only the client it names: an
\* RPC-end of call kind only signals that client's completion and leaves
\* its server and server buffer addresses as they were, one of bind kind
\* writes only those two fields (and signals the completion), and no other
\* client's fields or completion are touched.
C34_EndChangesOnlyItsClient ==
  [][RpcEndDispatch =>
       LET c == ClientAt(Field(payload, 3))
           kind == Field(payload, 4)
       IN /\ \A d \in Clients \ {c} : clients'[d] = clients[d]
          /\ (c # "none" /\ kind = SIF_CMD_RPC_CALL) =>
               clients'[c] = [clients[c] EXCEPT !.done = TRUE]
          /\ (c # "none" /\ kind = SIF_CMD_RPC_BIND) =>
               /\ clients'[c].done
               /\ clients'[c].client_buffer = clients[c].client_buffer
               /\ clients'[c].client_size_max = clients[c].client_size_max]_vars

\* An RPC-end of call kind was the last one dispatched for the bound client
\* c1, whose server is still the one it was bound to, and an RPC-end of bind
\* kind the last one for c2.
C34_Witness ==
  /\ ends["c1"].kind = SIF_CMD_RPC_CALL
  /\ clients["c1"].done
  /\ clients["c1"].server = W(0, 4096)
  /\ ends["c2"].kind = SIF_CMD_RPC_BIND
  /\ clients["c2"].server = NULL
  /\ clients["c2"].client_buffer # 0


\* C35: when two contexts call the same bound client concurrently, each call
\* that returns success returns after the answer to its own request was sent
\* and with the result bytes of its own request in its receive buffer.
C35_OwnAnswer ==
  \A t \in Threads :
    (th[t].op = "call" /\ th[t].pc = "ret" /\ th[t].val = 0)
      => /\ rpc[t].answered
         /\ SubSeq(rpc[t].recv, 1, rpc[t].recv_size) = rpc[t].answer


\* C36: a failed send is all-or-nothing: a send that returns an error has
\* started no outbound transfer, so no bulk payload goes to the satellite
\* without the header that announces it.
C36_FailedSendStartedNothing ==
  \A x \in Ctx :
    (snd[x].pc = "done" /\ snd[x].err < 0) => ~snd[x].bulkStarted


\* The pages of the two DMA buffers.
DmaBuffers == {SIF0_PAGE, SIF1_PAGE}

\* C37: from a successful sif_init until sif_exit both DMA buffers stay
\* allocated: no step of a send, an inbound dispatch, a bind, a call or an
\* unbind releases one of them, and the only step that does is sif_exit,
\* which releases both.
C37_DmaBuffersStay ==
  [][/\ boot.pc = "done" => DmaBuffers \subseteq pages
     /\ (pages' \cap DmaBuffers # pages \cap DmaBuffers)
          => /\ boot.pc = "done" /\ boot'.pc = "exited"
             /\ pages' \cap DmaBuffers = {}
     /\ boot'.pc = "done" => DmaBuffers \subseteq pages']_vars

\* After a bind, a call that was answered and dispatched, and the unbind that
\* freed the client's page, both DMA buffers are allocated.
C37_Witness ==
  /\ boot.pc = "done" /\ life["c1"].state = "unbound"
  /\ clients["c1"].client_buffer \notin pages
  /\ DmaBuffers \subseteq pages
  /\ ends["c1"].kind = SIF_CMD_RPC_CALL


LibraryNamesUnique(libs) ==
  \A i, j \in 1..Len(libs) : libs[i].name = libs[j].name => i = j

C40_BlockReleased ==
  \A t \in Threads :
    LET r == mod.th[t] IN
    /\ (r.pc = "unlock" /\ r.allocs > 0 /\ r.addr # NULL)
         => r.freed = <<r.addr>> /\ r.allocs = 1
    /\ (r.pc = "unlock" /\ r.allocs > 0 /\ r.addr = NULL)
         => r.freed = <<>> /\ r.rpcs = 0 /\ r.err = -ENOMEM
    /\ r.pc \in {"rpc", "register", "free"}
         => r.freed = <<>> /\ r.addr # NULL /\ r.allocs = 1
    /\ r.pc = "unlock" /\ r.allocs = 0 => r.freed = <<>> /\ r.rpcs = 0

\* iop_module_link_buffer has returned -ENOMEM from register_libraries, after
\* the IOP linked the module, and the block was freed.
C40_Witness ==
  \E t \in Threads :
    /\ mod.th[t].pc = "unlock" /\ mod.th[t].err = -ENOMEM
    /\ mod.th[t].rpcs = 1 /\ mod.th[t].addr \in IopBlocks
    /\ mod.th[t].freed = <<mod.th[t].addr>>

====
